---- MODULE Spec2Model ----
(***************************************************************************)
(* WeatherLamp, starlette_server/endpoint: the forecast composition engine *)
(* (yranalyzer.py), the cache-first fetcher (yrapiclient.py) and the       *)
(* segment assembly of the v2 endpoint (app_v2.py).                        *)
(*                                                                         *)
(* Conventions.  Times are whole seconds since an epoch that is the top    *)
(* of an hour.  Precipitation is in tenths of a millimetre.  A numeric     *)
(* None / NaN is NaN (-1; no real value of the model is -1), a missing      *)
(* symbol or key is the string "None".  rgb triples are tuples.            *)
(***************************************************************************)
EXTENDS Integers, Sequences, FiniteSets, TLC

VARIABLES
    clock,      \* the wall clock, seconds
    cache,      \* the cache directory: key -> [exists, text, mtime]
    calls,      \* the get_nowcast / get_locationforecast calls: id -> call
    req,        \* the request given to _process_segments and its progress
    tasks,      \* the _get_segment_data coroutines handed to asyncio.gather
    doneOrder,  \* ghost: task indices in the order the tasks completed
    output,     \* output_segments_data of _process_segments
    statuses,   \* segment_statuses of _process_segments
    grid,       \* the pure-function harness: inputs and results
    ticks,      \* ghost: steps of the clock taken
    http,       \* the request given to the v2 handler and its response
    env         \* the deployment: the colormaps load_colormaps found, in the order it
                \* read them, and the daylight-saving switch of the server's time zone

vars == <<clock, cache, calls, req, tasks, doneOrder, output, statuses, grid, ticks, http, env>>

\* ------------------------------------------------------------------------
\* Generic helpers
\* ------------------------------------------------------------------------
NaN == -1
None == "None"

SetMax(S) == CHOOSE m \in S : \A y \in S : y <= m
SetMin(S) == CHOOSE m \in S : \A y \in S : m <= y

ReverseSkipped(s) == s

Reverse(s) == [i \in 1..Len(s) |-> s[Len(s) + 1 - i]]

Range(s) == {s[i] : i \in 1..Len(s)}

RECURSIVE SortedSeq(_)
SortedSeq(S) ==
    IF S = {} THEN <<>> ELSE LET m == SetMin(S) IN <<m>> \o SortedSeq(S \ {m})

\* ------------------------------------------------------------------------
\* yranalyzer.py: symbolmap
\* ------------------------------------------------------------------------
ClearskySymbols == {"clearsky", "fair"}
PartlycloudySymbols == {"partlycloudy"}
CloudySymbols == {"cloudy", "fog"}
HeavyrainSymbols ==
    {"heavyrain", "heavyrainandthunder", "heavyrainshowers", "heavyrainshowersandthunder",
     "heavysleet", "heavysleetandthunder", "heavysleetshowers", "heavysleetshowersandthunder",
     "heavysnow", "heavysnowandthunder", "heavysnowshowers", "heavysnowshowersandthunder"}
LightrainSymbols ==
    {"lightrain", "lightrainandthunder", "lightrainshowers", "lightrainshowersandthunder",
     "lightsleet", "lightsleetandthunder", "lightsleetshowers",
     "lightsnow", "lightsnowandthunder", "lightsnowshowers",
     "lightssleetshowersandthunder", "lightssnowshowersandthunder"}
RainSymbols ==
    {"rain", "rainandthunder", "rainshowers", "rainshowersandthunder",
     "sleet", "sleetandthunder", "sleetshowers", "sleetshowersandthunder",
     "snow", "snowandthunder", "snowshowers", "snowshowersandthunder"}

symbolmapKeys ==
    ClearskySymbols \cup PartlycloudySymbols \cup CloudySymbols
        \cup HeavyrainSymbols \cup LightrainSymbols \cup RainSymbols

\* symbolmap[symbol]; defined for the keys of the dict only
symbolmap(symbol) ==
    CASE symbol \in ClearskySymbols -> "CLEARSKY"
      [] symbol \in PartlycloudySymbols -> "PARTLYCLOUDY"
      [] symbol \in CloudySymbols -> "CLOUDY"
      [] symbol \in HeavyrainSymbols -> "HEAVYRAIN"
      [] symbol \in LightrainSymbols -> "LIGHTRAIN"
      [] symbol \in RainSymbols -> "RAIN"

\* symbolmap.get(symbol): None for a symbol that is no key
symbolmapGet(symbol) == IF symbol \in symbolmapKeys THEN symbolmap(symbol) ELSE None

\* Symbols the upstream may send that are no key of symbolmap.
UnknownSymbols == {"drizzle", "freezingrain"}

\* The symbol codes of a precipitation family: rain, sleet or snow behind the prefix
\* ("light", "heavy" or none), plain or in one of the thunder and shower variants
FamilySymbols(prefix) ==
    {prefix \o kind \o variant :
        kind \in {"rain", "sleet", "snow"},
        variant \in {"", "andthunder", "showers", "showersandthunder"}}

\* rain_re = re.compile(r"rain|sleet|snow", re.IGNORECASE); rain_re.findall(str(symbol)).
\* A string cannot be searched in TLA+: the match is tabulated over the symbols of
\* the model (every key of the three rain families holds one of the words).
rain_re_findall(symbol) ==
    symbol \in (HeavyrainSymbols \cup LightrainSymbols \cup RainSymbols \cup {"freezingrain"}
                    \cup FamilySymbols("light") \cup FamilySymbols("heavy") \cup FamilySymbols(""))

\* ------------------------------------------------------------------------
\* yranalyzer.py: get_start_and_end
\* ------------------------------------------------------------------------
SecondsPerMinute == 60
SecondsPerHour == 3600

\* start_time = now.replace(minute=0, second=0, microsecond=0);
\* minutes_over = (now - start_time).total_seconds() / 60 is compared and floor-divided
\* in seconds here, which is the same comparison and the same quotient.
get_start_and_end(slot_len, slot_count, now) ==
    LET start_time == now - (now % SecondsPerHour)
        seconds_over == now - start_time
        slot_seconds == slot_len * SecondsPerMinute
        start ==
            IF seconds_over > slot_seconds
            THEN start_time + slot_seconds * (seconds_over \div slot_seconds)
            ELSE start_time
    IN  [start |-> start, end |-> start + slot_seconds * slot_count]

\* ------------------------------------------------------------------------
\* yranalyzer.py: parsing the upstream timeseries
\* A parsed JSON value is [kind, hasTs, ts]: kind "None" is Python None, kind "obj" a
\* dict; hasTs says that properties.timeseries is present and a list, ts is that list.
\* A nowcast entry is [time, rate] (rate NaN: no precipitation_rate key); a forecast
\* entry is [time, kind, prec, prob, code] with kind "1h" (next_1_hours present),
\* "6h" (only next_6_hours) or "none", and code the symbol_code split at "_".
\* ------------------------------------------------------------------------
PyNone == [kind |-> "None", hasTs |-> FALSE, ts |-> <<>>]
JsonObj(ts) == [kind |-> "obj", hasTs |-> TRUE, ts |-> ts]
\* a dict without properties.timeseries; ts is not read
JsonEmptyObj == [kind |-> "obj", hasTs |-> FALSE, ts |-> <<>>]

\* symbol_code.split("_") has two parts when the code holds one "_", else one
_extract_symbol_from_code(code) == code[1]

_parse_nowcast_entry(t) == [time |-> t.time, prec_now |-> t.rate]

_parse_forecast_1h_entry(t) ==
    <<[time |-> t.time, prec_fore |-> t.prec, prob_of_prec |-> t.prob,
       symbol |-> _extract_symbol_from_code(t.code)]>>

HoursIn6h == 6

\* precip_6h / 6.0: the inputs of the model keep 6-hour amounts multiples of 0.6 mm
_parse_forecast_6h_entry(t) ==
    [h \in 1..HoursIn6h |->
        [time |-> t.time + (h - 1) * SecondsPerHour,
         prec_fore |-> IF t.prec = NaN THEN 0 ELSE t.prec \div HoursIn6h,
         prob_of_prec |-> t.prob,
         symbol |-> _extract_symbol_from_code(t.code)]]

RECURSIVE ParseEntries(_, _, _)
ParseEntries(ts, cast, i) ==
    IF i > Len(ts) THEN <<>>
    ELSE LET t == ts[i]
             rows == IF cast = "now" THEN <<_parse_nowcast_entry(t)>>
                     ELSE IF t.kind = "1h" THEN _parse_forecast_1h_entry(t)
                     ELSE IF t.kind = "6h" THEN _parse_forecast_6h_entry(t)
                     ELSE <<>>
         IN  rows \o ParseEntries(ts, cast, i + 1)

\* What an operator gives when the function it models raises KeyError
KeyError == "KeyError"

\* yrdata["properties"]["timeseries"] of a dict without the key raises KeyError
ParseRaises(yrdata) == yrdata.kind = "obj" /\ ~yrdata.hasTs

\* The rows of the DataFrame; <<>> is the empty DataFrame (yrdata None, or no row)
_parse_yr_timeseries_to_df(yrdata, cast) ==
    IF yrdata.kind = "None" THEN <<>>
    ELSE IF ParseRaises(yrdata) THEN KeyError
    ELSE ParseEntries(yrdata.ts, cast, 1)

yr_precipitation_to_df(yrdata, cast) == _parse_yr_timeseries_to_df(yrdata, cast)

\* ------------------------------------------------------------------------
\* yranalyzer.py: create_combined_forecast
\* A resampled frame is a sequence of rows in ascending time, one per bucket from the
\* bucket of the earliest sample to the bucket of the latest one (pandas resample with
\* origin=starttime: buckets [origin + k*W, origin + (k+1)*W), k any integer).
\* ------------------------------------------------------------------------
BinOf(t, origin, W) == origin + ((t - origin) \div W) * W

ResampleIndex(rows, origin, W) ==
    IF rows = <<>> THEN <<>>
    ELSE LET times == {rows[i].time : i \in 1..Len(rows)}
             lo == BinOf(SetMin(times), origin, W)
             hi == BinOf(SetMax(times), origin, W)
         IN  [k \in 1..(((hi - lo) \div W) + 1) |-> lo + (k - 1) * W]

RowsInBin(rows, b, W) == SelectSeq(rows, LAMBDA r : b <= r.time /\ r.time < b + W)

\* "max" of a numeric column over a bucket: NaN values are skipped, an all-NaN or
\* empty bucket gives NaN
AggMax(rs, f) ==
    LET vals == {rs[i][f] : i \in 1..Len(rs)} \ {NaN}
    IN  IF vals = {} THEN NaN ELSE SetMax(vals)

\* "first" of the symbol column over a bucket: the first value that is not null
AggFirst(rs, f) ==
    LET idx == {i \in 1..Len(rs) : rs[i][f] # None}
    IN  IF idx = {} THEN None ELSE rs[SetMin(idx)][f]

\* .ffill() of one column: a null takes the last value before it that is not null
FfillColumn(col, null) ==
    LET F[i \in 0..Len(col)] ==
            IF i = 0 THEN null
            ELSE IF col[i] # null THEN col[i] ELSE F[i - 1]
    IN  [i \in 1..Len(col) |-> F[i]]

ResampleNowFfill(rows, origin, W) ==
    LET index == ResampleIndex(rows, origin, W)
        prec == FfillColumn([k \in 1..Len(index) |->
                                AggMax(RowsInBin(rows, index[k], W), "prec_now")], NaN)
    IN  [k \in 1..Len(index) |-> [time |-> index[k], prec_now |-> prec[k]]]

\* df_now_full.resample(res_min, origin=starttime).agg({"prec_now": [min, max, mean]}),
\* of which the max column is kept as prec_now.  No forward fill.
ResampleNow(rows, origin, W) ==
    LET index == ResampleIndex(rows, origin, W)
    IN  [k \in 1..Len(index) |->
            [time |-> index[k], prec_now |-> AggMax(RowsInBin(rows, index[k], W), "prec_now")]]

\* df_fore_full[...].resample(res_min, origin=starttime).agg(agg_funcs).ffill():
\* max for the numeric columns, first for symbol, then a forward fill of every column.
ResampleForeFfill(rows, origin, W) ==
    LET index == ResampleIndex(rows, origin, W)
        n == Len(index)
        prec == FfillColumn([k \in 1..n |-> AggMax(RowsInBin(rows, index[k], W), "prec_fore")], NaN)
        prob == FfillColumn([k \in 1..n |-> AggMax(RowsInBin(rows, index[k], W), "prob_of_prec")], NaN)
        symb == FfillColumn([k \in 1..n |-> AggFirst(RowsInBin(rows, index[k], W), "symbol")], None)
    IN  [k \in 1..n |->
            [time |-> index[k], prec_fore |-> prec[k], prob_of_prec |-> prob[k], symbol |-> symb[k]]]

\* df[(df.index >= starttime) & (df.index < endttime)]
FilterWindow(rows, starttime, endtime) ==
    SelectSeq(rows, LAMBDA r : starttime <= r.time /\ r.time < endtime)

\* pd.date_range(start=starttime, periods=slot_count, freq=res_min)
date_range(starttime, slot_count, W) == [k \in 1..slot_count |-> starttime + (k - 1) * W]

MockNow(index) == [k \in 1..Len(index) |-> [time |-> index[k], prec_now |-> NaN]]
MockFore(index) ==
    [k \in 1..Len(index) |->
        [time |-> index[k], prec_fore |-> NaN, prob_of_prec |-> NaN, symbol |-> None]]

\* The value of column f at time t of a frame, null when the frame has no row at t
ValueAt(rows, t, f, null) ==
    LET idx == {i \in 1..Len(rows) : rows[i].time = t}
    IN  IF idx = {} THEN null ELSE rows[SetMin(idx)][f]

MergedRow(now_rows, fore_rows, t) ==
    [time |-> t,
     prec_now |-> ValueAt(now_rows, t, "prec_now", NaN),
     prec_fore |-> ValueAt(fore_rows, t, "prec_fore", NaN),
     prob_of_prec |-> ValueAt(fore_rows, t, "prob_of_prec", NaN),
     symbol |-> ValueAt(fore_rows, t, "symbol", None)]

\* pd.concat([df_now_resampled, df_fore_resampled], axis=1): the outer join on the
\* union of the two indexes
concat(now_rows, fore_rows) ==
    LET index == SortedSeq({now_rows[i].time : i \in 1..Len(now_rows)}
                            \cup {fore_rows[i].time : i \in 1..Len(fore_rows)})
    IN  [k \in 1..Len(index) |-> MergedRow(now_rows, fore_rows, index[k])]

reindexSkipped(merge, expected_index) == merge

\* merge.reindex(expected_index): the rows of merge at the expected times, a row of
\* nulls where merge has none
reindex(merge, expected_index) ==
    [k \in 1..Len(expected_index) |->
        LET idx == {i \in 1..Len(merge) : merge[i].time = expected_index[k]}
        IN  IF idx = {} THEN MergedRow(<<>>, <<>>, expected_index[k])
            ELSE merge[SetMin(idx)]]

head(rows, n) == SubSeq(rows, 1, IF Len(rows) < n THEN Len(rows) ELSE n)

NowBranch(nowcast, starttime, endtime, W, slot_count) ==
    LET df_now_full == yr_precipitation_to_df(nowcast, "now")
    IN  IF nowcast.kind = "None" THEN MockNow(date_range(starttime, slot_count, W))
        ELSE IF ParseRaises(nowcast) THEN KeyError
        ELSE IF df_now_full = <<>> THEN MockNow(date_range(starttime, slot_count, W))
        ELSE FilterWindow(ResampleNow(df_now_full, starttime, W), starttime, endtime)

ForeBranch(forecast, starttime, endtime, W, slot_count) ==
    LET df_fore_full == yr_precipitation_to_df(forecast, "fore")
    IN  IF ParseRaises(forecast) THEN KeyError
        ELSE IF df_fore_full = <<>> THEN MockFore(date_range(starttime, slot_count, W))
        ELSE FilterWindow(ResampleForeFfill(df_fore_full, starttime, W), starttime, endtime)

\* create_combined_forecast raises what the parsing of either input raises
CombineRaises(nowcast, forecast) == ParseRaises(nowcast) \/ ParseRaises(forecast)

\* pd.concat of the two resampled, filtered frames, before the reindex
MergeOf(nowcast, forecast, slot_minutes, slot_count, now) ==
    LET se == get_start_and_end(slot_minutes, slot_count, now)
        W == slot_minutes * SecondsPerMinute
        df_now_resampled == NowBranch(nowcast, se.start, se.end, W, slot_count)
        df_fore_resampled == ForeBranch(forecast, se.start, se.end, W, slot_count)
    IN  IF CombineRaises(nowcast, forecast) THEN KeyError
        ELSE concat(df_now_resampled, df_fore_resampled)

\* merge.reindex(expected_index) and the final length check, merge being a value
ReindexMerge(merge, slot_minutes, slot_count, now) ==
    LET se == get_start_and_end(slot_minutes, slot_count, now)
        W == slot_minutes * SecondsPerMinute
        expected_index == date_range(se.start, slot_count, W)
    IN  CHOOSE df \in {IF Len(reindexed) # slot_count THEN head(reindexed, slot_count)
                       ELSE reindexed : reindexed \in {reindex(merge, expected_index)}} : TRUE

create_combined_forecast(nowcast, forecast, slot_minutes, slot_count, now) ==
    IF CombineRaises(nowcast, forecast) THEN KeyError
    ELSE
    CHOOSE df \in {ReindexMerge(merge, slot_minutes, slot_count, now) :
                     merge \in {MergeOf(nowcast, forecast, slot_minutes, slot_count, now)}} : TRUE

\* ------------------------------------------------------------------------
\* app_v2.py: colormaps.  COLORMAPS is filled at startup from the JSON files of the
\* colormaps directory, validated against WeatherColorMap; "plain" holds the values of
\* the built-in fallback, and "night" stands for a second file.  A colormap is a
\* function bucket -> rgb; the
\* bucket order is the field order of WeatherColorMap.
\* ------------------------------------------------------------------------
BucketOrder ==
    <<"CLEARSKY", "PARTLYCLOUDY", "CLOUDY", "LIGHTRAIN_LT50",
      "LIGHTRAIN", "RAIN", "HEAVYRAIN", "VERYHEAVYRAIN">>

Buckets == Range(BucketOrder)

PlainColormap ==
    [b \in Buckets |->
        CASE b = "CLEARSKY" -> <<3, 3, 235>>
          [] b = "PARTLYCLOUDY" -> <<65, 126, 205>>
          [] b = "CLOUDY" -> <<180, 200, 200>>
          [] b = "LIGHTRAIN_LT50" -> <<161, 228, 74>>
          [] b = "LIGHTRAIN" -> <<240, 240, 42>>
          [] b = "RAIN" -> <<241, 155, 44>>
          [] b = "HEAVYRAIN" -> <<236, 94, 42>>
          [] b = "VERYHEAVYRAIN" -> <<234, 57, 248>>]

NightColormap ==
    [b \in Buckets |->
        CASE b = "CLEARSKY" -> <<0, 0, 40>>
          [] b = "PARTLYCLOUDY" -> <<10, 20, 40>>
          [] b = "CLOUDY" -> <<30, 30, 30>>
          [] b = "LIGHTRAIN_LT50" -> <<20, 40, 10>>
          [] b = "LIGHTRAIN" -> <<40, 40, 0>>
          [] b = "RAIN" -> <<40, 20, 0>>
          [] b = "HEAVYRAIN" -> <<40, 10, 0>>
          [] b = "VERYHEAVYRAIN" -> <<40, 0, 40>>]

\* What load_colormaps can leave in COLORMAPS, as the list of its keys: the valid
\* files in the order Path.glob yields them (the order of the directory, either one;
\* a file that fails to parse or to validate is skipped), the built-in "plain" alone
\* when the directory holds no valid file, and nothing when there is no colormaps
\* directory (the function returns before the fallback)
ColormapOrders ==
    {<<"plain", "night">>, <<"night", "plain">>, <<"plain">>, <<"night">>, <<>>}

DefaultColormaps == <<"plain", "night">>

\* list(COLORMAPS.keys())
ColormapNames == env.colormaps

COLORMAPS(name) == IF name = "plain" THEN PlainColormap ELSE NightColormap

\* The dict {}
EmptyDict == [b \in {} |-> <<0, 0, 0>>]

\* What an operator gives when the function it models raises StopIteration
StopIteration == "StopIteration"

\* next(iter(COLORMAPS.keys())) of an empty COLORMAPS raises StopIteration
SelectRaises(colormap_name) ==
    colormap_name \notin Range(ColormapNames) /\ ColormapNames = <<>>

SelectColormapFirst(colormap_name) ==
    IF ColormapNames = <<>> THEN StopIteration ELSE COLORMAPS(ColormapNames[1])

\* if colormap_name in COLORMAPS ... else the first colormap
SelectColormap(colormap_name) ==
    IF colormap_name \in Range(ColormapNames) THEN COLORMAPS(colormap_name)
    ELSE IF SelectRaises(colormap_name) THEN StopIteration
    ELSE COLORMAPS(ColormapNames[1])

STALE_INDICATOR_COLOR == <<255, 0, 128>>
STALE_INDICATOR_HEX == "ff0080"
ERROR_PATTERN_COLORS == <<<<255, 0, 128>>, <<0, 0, 0>>>>

HexDigits == <<"0", "1", "2", "3", "4", "5", "6", "7", "8", "9", "a", "b", "c", "d", "e", "f">>
HexBase == 16

\* f"{c:02x}"
Hex2(c) == HexDigits[(c \div HexBase) + 1] \o HexDigits[(c % HexBase) + 1]

\* f"{color[0]:02x}{color[1]:02x}{color[2]:02x}"
HexOf(color) == Hex2(color[1]) \o Hex2(color[2]) \o Hex2(color[3])

\* ------------------------------------------------------------------------
\* yranalyzer.py: the classifier
\* ------------------------------------------------------------------------
VeryHeavyThreshold == 30
HeavyThreshold == 15
RainThreshold == 5
LightThreshold == 0

\* thresholds = [(3.0, VERYHEAVYRAIN), (1.5, HEAVYRAIN), (0.5, RAIN), (0.0, LIGHTRAIN)]
thresholds ==
    <<<<VeryHeavyThreshold, "VERYHEAVYRAIN">>, <<HeavyThreshold, "HEAVYRAIN">>,
      <<RainThreshold, "RAIN">>, <<LightThreshold, "LIGHTRAIN">>>>

_determine_nowcast_color_keyAtLeast(precipitation, symbol) ==
    LET over == {k \in 1..Len(thresholds) : precipitation >= thresholds[k][1]}
    IN  IF over # {} THEN thresholds[SetMin(over)][2]
        ELSE IF precipitation = 0 /\ symbol # None
             THEN IF rain_re_findall(symbol) THEN "CLOUDY" ELSE symbolmapGet(symbol)
             ELSE None

_determine_nowcast_color_key(precipitation, symbol) ==
    LET over == {k \in 1..Len(thresholds) : precipitation > thresholds[k][1]}
    IN  IF over # {} THEN thresholds[SetMin(over)][2]
        ELSE IF precipitation = 0 /\ symbol # None
             THEN IF rain_re_findall(symbol) THEN "CLOUDY" ELSE symbolmapGet(symbol)
             ELSE None

ProbLimit == 50

_determine_forecast_color_keyBelow(symbol, prob_of_prec) ==
    IF symbol = None \/ symbol \notin symbolmapKeys THEN None
    ELSE LET colors_key == symbolmap(symbol)
         IN  IF colors_key = "LIGHTRAIN" /\ prob_of_prec # NaN /\ prob_of_prec < ProbLimit
             THEN "LIGHTRAIN_LT50"
             ELSE colors_key

_determine_forecast_color_key(symbol, prob_of_prec) ==
    IF symbol = None \/ symbol \notin symbolmapKeys THEN None
    ELSE LET colors_key == symbolmap(symbol)
         IN  IF colors_key = "LIGHTRAIN" /\ prob_of_prec # NaN /\ prob_of_prec <= ProbLimit
             THEN "LIGHTRAIN_LT50"
             ELSE colors_key

\* The colour key of one row of the grid
ColorKey(row) ==
    IF row.prec_now # NaN
    THEN _determine_nowcast_color_key(row.prec_now, row.symbol)
    ELSE _determine_forecast_color_key(row.symbol, row.prob_of_prec)

add_symbol_and_colorBlack(df, colormap) ==
    [i \in 1..Len(df) |->
        LET colors_key == ColorKey(df[i])
            known == colors_key # None /\ colors_key \in DOMAIN colormap
        IN  [time |-> df[i].time, prec_now |-> df[i].prec_now, prec_fore |-> df[i].prec_fore,
             prob_of_prec |-> df[i].prob_of_prec, symbol |-> df[i].symbol,
             wl_symbol |-> IF known THEN colors_key ELSE "UNKNOWN",
             color |-> IF known THEN colormap[colors_key] ELSE <<0, 0, 0>>]]

\* add_symbol_and_color: every row gains wl_symbol and color
add_symbol_and_color(df, colormap) ==
    [i \in 1..Len(df) |->
        LET colors_key == ColorKey(df[i])
            known == colors_key # None /\ colors_key \in DOMAIN colormap
        IN  [time |-> df[i].time, prec_now |-> df[i].prec_now, prec_fore |-> df[i].prec_fore,
             prob_of_prec |-> df[i].prob_of_prec, symbol |-> df[i].symbol,
             wl_symbol |-> IF known THEN colors_key ELSE "UNKNOWN",
             color |-> IF known THEN colormap[colors_key]
                       ELSE IF "UNKNOWN" \in DOMAIN colormap THEN colormap["UNKNOWN"]
                       ELSE IF "CLOUDY" \in DOMAIN colormap THEN colormap["CLOUDY"]
                       ELSE <<0, 0, 0>>]]

\* ------------------------------------------------------------------------
\* app_v2.py: LED slots.  A slot is the dict of the source without wind_gust.
\* ------------------------------------------------------------------------
SyntheticSlot(wl_symbol, color) ==
    [time |-> NaN, yr_symbol |-> None, wl_symbol |-> wl_symbol, prec_nowcast |-> NaN,
     prec_forecast |-> NaN, precipitation |-> NaN, prob_of_prec |-> NaN,
     rgb |-> color, hex |-> HexOf(color)]

_build_error_patternShifted(led_count) ==
    [k \in 1..led_count |->
        SyntheticSlot("error", ERROR_PATTERN_COLORS[(k % Len(ERROR_PATTERN_COLORS)) + 1])]

_build_error_pattern(led_count) ==
    [k \in 1..led_count |->
        SyntheticSlot("error", ERROR_PATTERN_COLORS[((k - 1) % Len(ERROR_PATTERN_COLORS)) + 1])]

\* The dark branch of _process_segments
DarkSegment(led_count) == [k \in 1..led_count |-> SyntheticSlot("dark", <<0, 0, 0>>)]

\* color_index = int((i / led_count) * len(colors)) if led_count > 1 else 0, clamped
PreviewColorIndex(i, led_count, n) ==
    LET color_index == IF led_count > 1 THEN (i * n) \div led_count ELSE 0
    IN  IF color_index >= n THEN n - 1 ELSE color_index

_create_colormap_preview(colormap_name, led_count) ==
    LET colormap == SelectColormap(colormap_name)
        n == Len(BucketOrder)
    IN  IF SelectRaises(colormap_name) THEN StopIteration
        ELSE
        [k \in 1..led_count |->
            LET bucket == BucketOrder[PreviewColorIndex(k - 1, led_count, n) + 1]
            IN  SyntheticSlot("colormap_preview_" \o bucket, colormap[bucket])]

\* The loop of _get_segment_data over the classified frame
WeatherSlots(df) ==
    [i \in 1..Len(df) |->
        [time |-> df[i].time, yr_symbol |-> df[i].symbol, wl_symbol |-> df[i].wl_symbol,
         prec_nowcast |-> df[i].prec_now, prec_forecast |-> df[i].prec_fore,
         precipitation |-> IF df[i].prec_now # NaN THEN df[i].prec_now ELSE df[i].prec_fore,
         prob_of_prec |-> df[i].prob_of_prec,
         rgb |-> df[i].color, hex |-> HexOf(df[i].color)]]

STALE_WARNING_THRESHOLD_S == 1800
ERROR_THRESHOLD_S == 10800

\* The padding of create_forecast: the last row repeated up to slot_count rows (an
\* empty frame stays empty), or the first slot_count rows
PadOrTruncate(df, slot_count) ==
    IF Len(df) = slot_count THEN df
    ELSE IF Len(df) < slot_count
         THEN IF df = <<>> THEN df
              ELSE [k \in 1..slot_count |->
                        [(IF k <= Len(df) THEN df[k] ELSE df[Len(df)]) EXCEPT !.time = k - 1]]
         ELSE SubSeq(df, 1, slot_count)

\* create_forecast after its gather: the ForecastResult of the two fetch results
create_forecast(nowcast_result, forecast_result, slot_minutes, slot_count, now) ==
    LET ages == {r.cache_age_seconds : r \in {nowcast_result, forecast_result}} \ {NaN}
        max_cache_age == IF ages = {} THEN NaN ELSE SetMax(ages)
        has_data == forecast_result.source # "none"
        data_status ==
            IF ~has_data THEN "error"
            ELSE IF max_cache_age # NaN /\ max_cache_age > STALE_WARNING_THRESHOLD_S THEN "stale"
            ELSE "fresh"
    IN  IF CombineRaises(nowcast_result.data, forecast_result.data) THEN KeyError
        ELSE
        CHOOSE result \in
            {[df |-> PadOrTruncate(df, slot_count), max_cache_age_seconds |-> max_cache_age,
              has_data |-> has_data, data_status |-> data_status] :
                df \in {create_combined_forecast(nowcast_result.data, forecast_result.data,
                                                 slot_minutes, slot_count, now)}} : TRUE

\* times[-1] becomes the stale indicator
ApplyStaleIndicator(times) ==
    [times EXCEPT ![Len(times)] =
        [@ EXCEPT !.rgb = STALE_INDICATOR_COLOR, !.hex = STALE_INDICATOR_HEX,
                  !.wl_symbol = "stale_indicator"]]

\* The tail of _get_segment_data: the stale indicator on the slots of a stale result
SegmentSlots(times, data_status) ==
    [times |-> IF data_status = "stale" /\ times # <<>> THEN ApplyStaleIndicator(times)
               ELSE times,
     data_status |-> data_status]

\* The loop of _get_segment_data over the rows of the classified frame df
SlotsOfFrame(df, data_status) ==
    CHOOSE r \in {SegmentSlots(times, data_status) : times \in {WeatherSlots(df)}} : TRUE

SegmentDataByAgeOnly(result, slot_count, colormap_name) ==
    IF result.max_cache_age_seconds # NaN /\ result.max_cache_age_seconds > ERROR_THRESHOLD_S
    THEN [times |-> _build_error_pattern(slot_count), data_status |-> "error"]
    ELSE IF SelectRaises(colormap_name) THEN StopIteration
    ELSE CHOOSE r \in {SlotsOfFrame(df, result.data_status) :
                        df \in {add_symbol_and_color(result.df, SelectColormap(colormap_name))}} : TRUE

_get_segment_dataByAgeOnly(nowcast_result, forecast_result, slot_minutes, slot_count, colormap_name, now) ==
    IF CombineRaises(nowcast_result.data, forecast_result.data) THEN KeyError
    ELSE
    CHOOSE r \in {SegmentDataByAgeOnly(result, slot_count, colormap_name) :
                    result \in {create_forecast(nowcast_result, forecast_result,
                                                slot_minutes, slot_count, now)}} : TRUE

\* _get_segment_data from the ForecastResult on
SegmentData(result, slot_count, colormap_name) ==
    IF \/ ~result.has_data
       \/ result.max_cache_age_seconds # NaN /\ result.max_cache_age_seconds > ERROR_THRESHOLD_S
    THEN [times |-> _build_error_pattern(slot_count), data_status |-> "error"]
    ELSE IF SelectRaises(colormap_name) THEN StopIteration
    ELSE CHOOSE r \in {SlotsOfFrame(df, result.data_status) :
                        df \in {add_symbol_and_color(result.df, SelectColormap(colormap_name))}} : TRUE

\* _get_segment_data returns the error pattern before it looks the colormap up
IsErrorResult(result) ==
    \/ ~result.has_data
    \/ result.max_cache_age_seconds # NaN /\ result.max_cache_age_seconds > ERROR_THRESHOLD_S

\* _get_segment_data raises: KeyError out of create_forecast, or StopIteration at the
\* colormap of a result that is not rendered as the error pattern
SegmentRaises(nowcast_result, forecast_result, slot_minutes, slot_count, colormap_name, now) ==
    IF CombineRaises(nowcast_result.data, forecast_result.data) THEN TRUE
    ELSE /\ SelectRaises(colormap_name)
         /\ ~IsErrorResult(create_forecast(nowcast_result, forecast_result,
                                           slot_minutes, slot_count, now))

\* _get_segment_data after create_forecast's gather: the LED slots (before reversal)
\* and the data_status
_get_segment_data(nowcast_result, forecast_result, slot_minutes, slot_count, colormap_name, now) ==
    IF CombineRaises(nowcast_result.data, forecast_result.data) THEN KeyError
    ELSE
    CHOOSE r \in {SegmentData(result, slot_count, colormap_name) :
                    result \in {create_forecast(nowcast_result, forecast_result,
                                                slot_minutes, slot_count, now)}} : TRUE

\* ------------------------------------------------------------------------
\* yrapiclient.py: the upstream bodies and the cache files.
\* A text (a response body, the content of a cache file) is named by a string; Docs
\* gives what json.loads makes of it.  "" is a file truncated by open(path, "w") and
\* not written yet, "garbage" is text that is no JSON, "no_series" a JSON object
\* without a non-empty properties.timeseries list.
\* ------------------------------------------------------------------------
NowEntry(time, rate) == [time |-> time, rate |-> rate]
ForeEntry(time, kind, prec, prob, code) ==
    [time |-> time, kind |-> kind, prec |-> prec, prob |-> prob, code |-> code]

\* 5-minute radar samples from the top of the hour, one without precipitation_rate
NowDocA ==
    JsonObj(<<NowEntry(0, 20), NowEntry(300, 2), NowEntry(600, 0), NowEntry(900, 0),
              NowEntry(1200, NaN), NowEntry(1500, 35), NowEntry(1800, 7)>>)
\* radar samples that start late and end early
NowDocB == JsonObj(<<NowEntry(900, 0), NowEntry(1200, 6)>>)

\* hourly forecast from the hour before the epoch
ForeDocA ==
    JsonObj(<<ForeEntry(-3600, "1h", 0, 0, <<"clearsky", "day">>),
              ForeEntry(0, "1h", 3, 40, <<"lightrain">>),
              ForeEntry(3600, "1h", 12, 80, <<"rain">>),
              ForeEntry(7200, "1h", 0, NaN, <<"cloudy">>)>>)
\* a forecast that starts late, names a symbol outside symbolmap, and goes on with a
\* 6-hour entry and an entry with neither period
ForeDocB ==
    JsonObj(<<ForeEntry(900, "1h", 0, NaN, <<"drizzle">>),
              ForeEntry(3600, "6h", 12, 60, <<"lightsnow">>),
              ForeEntry(25200, "none", NaN, NaN, <<"fog">>)>>)

ValidTexts(cast_type) ==
    IF cast_type = "nowcast" THEN {"now_a", "now_b"} ELSE {"fore_a", "fore_b"}

InvalidTexts == {"garbage", "no_series"}

Docs(text) ==
    CASE text = "now_a" -> NowDocA
      [] text = "now_b" -> NowDocB
      [] text = "fore_a" -> ForeDocA
      [] text = "fore_b" -> ForeDocB
      [] text = "no_series" -> JsonEmptyObj
      [] OTHER -> PyNone

\* json.loads(text): ok FALSE is JSONDecodeError
JsonLoads(text) ==
    IF text \in {"", "garbage"} THEN [ok |-> FALSE, val |-> PyNone]
    ELSE [ok |-> TRUE, val |-> Docs(text)]

_is_valid_yr_response(data) == data.kind = "obj" /\ data.hasTs /\ Len(data.ts) > 0

HTTP_OK == 200
HTTP_NON_AUTHORITATIVE_INFORMATION == 203
HTTP_UNPROCESSABLE_ENTITY == 422
HTTP_SERVER_ERROR == 500
CACHE_TTL_SECONDS == 120

CastTypes == {"nowcast", "locationforecast"}

\* Coordinates in hundredths of a degree
Helsinki == [lat |-> 6017, lon |-> 2495]
Madrid == [lat |-> 4042, lon |-> -370]
NorthPole == [lat |-> 9000, lon |-> 0]
Locations == {Helsinki, Madrid, NorthPole}

\* NOWCAST_COVERAGE_WKT, the vertices as <<lon, lat>> in hundredths of a degree
NOWCAST_COVERAGE ==
    <<<<255, 5330>>, <<-291, 6465>>, <<-950, 7132>>, <<1502, 7286>>,
      <<3950, 7132>>, <<3291, 6465>>, <<2745, 5330>>>>

\* The edge from vertex a to vertex b crosses the ray from (x, y) towards +x
EdgeCrosses(a, b, x, y) ==
    /\ (a[2] > y) # (b[2] > y)
    /\ IF b[2] > a[2]
       THEN (x - a[1]) * (b[2] - a[2]) < (b[1] - a[1]) * (y - a[2])
       ELSE (x - a[1]) * (b[2] - a[2]) > (b[1] - a[1]) * (y - a[2])

\* NOWCAST_COVERAGE.contains(Point(lon, lat)): an odd number of edges is crossed
contains(polygon, lon, lat) ==
    LET n == Len(polygon)
        crossed == {i \in 1..n : EdgeCrosses(polygon[i], polygon[(i % n) + 1], lon, lat)}
    IN  Cardinality(crossed) % 2 = 1

\* _get_cache_path: one file per (cast_type, lat, lon)
_get_cache_path(loc, cast_type) == <<cast_type, loc>>

CacheKeys == {_get_cache_path(loc, cast_type) : loc \in Locations, cast_type \in CastTypes}

NoFile == [exists |-> FALSE, text |-> "", mtime |-> 0]
File(text, mtime) == [exists |-> TRUE, text |-> text, mtime |-> mtime]

\* CacheResult
CacheResult(data, cache_age_seconds, source) ==
    [data |-> data, cache_age_seconds |-> cache_age_seconds, source |-> source]

NoResult == CacheResult(PyNone, NaN, "pending")

\* The time zone of the server: from the instant env.dst.at on, local time is shifted
\* by env.dst.shift seconds (an hour forward in spring, an hour back in autumn, 0 for a
\* zone without daylight saving)
NoDst == [at |-> 0, shift |-> 0]
DstSwitches(at) == {NoDst, [at |-> at, shift |-> SecondsPerHour],
                    [at |-> at, shift |-> 0 - SecondsPerHour]}

\* datetime.fromtimestamp(t) and datetime.now(): naive local time
fromtimestamp(t) == t + (IF t >= env.dst.at THEN env.dst.shift ELSE 0)

\* Deployments with the colormaps in their default order
DstEnvs(at) == {[colormaps |-> DefaultColormaps, dst |-> d] : d \in DstSwitches(at)}
ColormapEnvs == {[colormaps |-> o, dst |-> NoDst] : o \in ColormapOrders}
DefaultEnv == [colormaps |-> DefaultColormaps, dst |-> NoDst]

\* _check_cache_file_age: (exists, age); the age of a missing file is None.  The age
\* is the difference of two naive local times
_check_cache_file_age(entry, now) ==
    IF entry.exists THEN fromtimestamp(now) - fromtimestamp(entry.mtime) ELSE NaN

IsFreshAgeHour(age) == age <= SecondsPerHour

\* age <= CACHE_TTL_SECONDS in check_cache
IsFreshAge(age) == age <= CACHE_TTL_SECONDS

\* _read_cache_file: the parsed file, None when it does not parse
_read_cache_file(entry) ==
    IF entry.exists /\ JsonLoads(entry.text).ok THEN JsonLoads(entry.text).val ELSE PyNone

\* _load_stale_cache: the parsed file when it exists, parses and has the shape
_load_stale_cache(entry) ==
    IF entry.exists /\ JsonLoads(entry.text).ok /\ _is_valid_yr_response(JsonLoads(entry.text).val)
    THEN JsonLoads(entry.text).val
    ELSE PyNone

\* What client.get can bring: a RequestError, or a status and a body
Responses(cast_type) ==
    {[err |-> TRUE, status |-> 0, text |-> ""]}
        \cup {[err |-> FALSE, status |-> st, text |-> tx] :
                st \in {HTTP_OK, HTTP_NON_AUTHORITATIVE_INFORMATION},
                tx \in ValidTexts(cast_type) \cup InvalidTexts}
        \cup {[err |-> FALSE, status |-> st, text |-> tx] :
                st \in {HTTP_UNPROCESSABLE_ENTITY, HTTP_SERVER_ERROR},
                tx \in {"garbage"} \cup ValidTexts(cast_type)}

\* The part of get_yrdata between client.get and the cache write: TRUE when the
\* response is to be cached (200 or 203, parses, has the shape)
ResponseAccepted(r) ==
    /\ ~r.err
    /\ r.status \in {HTTP_OK, HTTP_NON_AUTHORITATIVE_INFORMATION}
    /\ JsonLoads(r.text).ok
    /\ _is_valid_yr_response(JsonLoads(r.text).val)

\* ------------------------------------------------------------------------
\* Bounds of the model
\* ------------------------------------------------------------------------
MaxSegs == 2        \* segments of a request
MaxReqLeds == 2     \* led_count of a segment of a request
MaxCallers == 2     \* direct callers of get_yrdata
MaxTicks == 1       \* steps of the clock

\* The clock steps: within the TTL, past the TTL
TickSteps == {60, 121}

\* Ages of the cache files found at start: fresh, past the TTL, past the stale
\* threshold, past the error threshold
StartAges == {90, 600, 3600, 9000, 20000}

\* The clock at start: off the slot boundaries, and on a 5-minute boundary
StartClocks == {130, 300}

\* The instant of the daylight-saving switch: shortly before the start (after the
\* cache files were written), between the start and the first step of the clock,
\* between two evaluations of a segment
DstAtStart == 100
DstAtFetch == 160
DstAtOutage == 2200

CallIds == 1..(2 * MaxSegs)

\* ------------------------------------------------------------------------
\* yrapiclient.py: get_yrdata, one action per stretch between two awaits.
\* A call is [cast_type, loc, dev, pc, age, text, result] and the ghosts gets (HTTP GETs
\* issued), t_lookup (the clock at the cache lookup), after (the calls that had
\* returned by then), found (the text of the cache file at the lookup, None when there
\* was no file).
\*   pc: idle -> check_age -> [read_cache] -> http -> write_open -> write_close -> done
\*                                                 -> fallback -> done | raised
\*   with dev: idle -> check_age -> done
\* ------------------------------------------------------------------------
IdleCall ==
    [cast_type |-> "nowcast", loc |-> Helsinki, dev |-> FALSE, pc |-> "idle", age |-> NaN,
     text |-> "",
     result |-> NoResult, gets |-> 0, t_lookup |-> 0, after |-> {}, found |-> None,
     found_mtime |-> 0, fallback |-> None]

NewCall(cast_type, loc) == [IdleCall EXCEPT !.cast_type = cast_type, !.loc = loc, !.pc = "check_age"]

\* A call that returned at once (get_nowcast outside the coverage)
ReturnedCall(cast_type, loc, result) ==
    [IdleCall EXCEPT !.cast_type = cast_type, !.loc = loc, !.pc = "done", !.result = result]

KeyOf(call) == _get_cache_path(call.loc, call.cast_type)

\* get_nowcast: get_yrdata inside the coverage, no data outside of it
get_nowcast(loc) ==
    IF contains(NOWCAST_COVERAGE, loc.lon, loc.lat)
    THEN NewCall("nowcast", loc)
    ELSE ReturnedCall("nowcast", loc, CacheResult(PyNone, NaN, "none"))

MIN_LAT == -9000
MAX_LAT == 9000
MIN_LON == -18000
MAX_LON == 18000

\* get_locationforecast: get_yrdata for coordinates in range, else ValueError
get_locationforecast(loc) ==
    IF MIN_LAT < loc.lat /\ loc.lat < MAX_LAT /\ MIN_LON < loc.lon /\ loc.lon < MAX_LON
    THEN NewCall("locationforecast", loc)
    ELSE [IdleCall EXCEPT !.cast_type = "locationforecast", !.loc = loc, !.pc = "raised"]

\* The sample responses under tests/sample_data, recorded some day before the epoch
DevNowSample ==
    JsonObj(<<NowEntry(-86400, 4), NowEntry(-86100, 0), NowEntry(-85800, 11)>>)
DevForeSample ==
    JsonObj(<<ForeEntry(-86400, "1h", 2, 30, <<"lightrain">>),
              ForeEntry(-82800, "1h", 0, 0, <<"fair", "day">>),
              ForeEntry(-79200, "1h", 14, 90, <<"heavyrain">>)>>)

DevSample(cast_type) == IF cast_type = "nowcast" THEN DevNowSample ELSE DevForeSample

DevDeltaNowcast == 5
DevDeltaForecast == 60

_read_dev_cacheUnshifted(cast_type, now) == DevSample(cast_type)

\* _read_dev_cache: the sample with its times replaced by steps of delta minutes from
\* the current hour (locationforecast) or the current 5 minutes (nowcast)
_read_dev_cache(cast_type, now) ==
    LET delta == IF cast_type = "locationforecast" THEN DevDeltaForecast ELSE DevDeltaNowcast
        ts == IF cast_type = "locationforecast"
              THEN now - (now % SecondsPerHour)
              ELSE now - (now % (DevDeltaNowcast * SecondsPerMinute))
        yrdata == DevSample(cast_type)
    IN  JsonObj([i \in 1..Len(yrdata.ts) |->
                    [yrdata.ts[i] EXCEPT !.time = ts + (i - 1) * delta * SecondsPerMinute]])

\* check_cache with dev, and the fresh-hit return of get_yrdata
AfterCheckCacheDev(call, now) ==
    [call EXCEPT !.pc = "done", !.age = 0,
                 !.result = CacheResult(_read_dev_cache(call.cast_type, now), 0, "cache_fresh")]

\* check_cache up to the end of _check_cache_file_age
AfterCheckAge(call, entry, now, returned) ==
    LET age == _check_cache_file_age(entry, now)
    IN  [call EXCEPT
            !.age = age,
            !.pc = IF entry.exists /\ IsFreshAge(age) THEN "read_cache" ELSE "http",
            !.t_lookup = now,
            !.after = returned,
            !.found = IF entry.exists THEN entry.text ELSE None,
            !.found_mtime = IF entry.exists THEN entry.mtime ELSE 0]

\* check_cache from _read_cache_file on, and the fresh-hit return of get_yrdata
AfterReadCache(call, entry) ==
    LET yrdata == _read_cache_file(entry)
    IN  IF yrdata # PyNone
        THEN [call EXCEPT !.pc = "done",
                          !.result = CacheResult(yrdata, call.age, "cache_fresh")]
        ELSE [call EXCEPT !.pc = "http"]

\* get_yrdata from the return of client.get to the next await
AfterHttp(call, r) ==
    IF ResponseAccepted(r)
    THEN [call EXCEPT !.pc = "write_open", !.text = r.text, !.gets = @ + 1]
    ELSE [call EXCEPT !.pc = "fallback", !.gets = @ + 1]

\* _write_cache_file, f.write and close: the file holds the text, unless another
\* writer has put a different text into it since this writer opened it; the bytes of
\* the two then mix, and what is left is this text or no JSON at all
WrittenTexts(entry, text) ==
    IF entry.text \in {"", text} THEN {text} ELSE {text, "garbage"}

\* _stale_or_none
_stale_or_none(call, entry) ==
    LET stale_data == _load_stale_cache(entry)
        read == IF entry.exists THEN entry.text ELSE None
    IN  IF stale_data # PyNone
        THEN IF call.age = NaN
             THEN [call EXCEPT !.pc = "raised", !.fallback = read]  \* f"{age:.0f}" of None: TypeError
             ELSE [call EXCEPT !.pc = "done", !.fallback = read,
                               !.result = CacheResult(stale_data, call.age, "cache_stale")]
        ELSE [call EXCEPT !.pc = "done", !.fallback = read,
                          !.result = CacheResult(PyNone, NaN, "none")]

\* The calls for the key of call c that have returned
Returned(c) ==
    {d \in CallIds : calls[d].pc \in {"done", "raised"} /\ KeyOf(calls[d]) = KeyOf(calls[c])}

CheckAge(c) ==
    /\ calls[c].pc = "check_age"
    /\ ~calls[c].dev
    /\ calls' = [calls EXCEPT ![c] = AfterCheckAge(@, cache[KeyOf(@)], clock, Returned(c))]
    /\ UNCHANGED <<env, clock, cache, req, tasks, doneOrder, output, statuses, grid, ticks, http>>

CheckCacheDev(c) ==
    /\ calls[c].pc = "check_age"
    /\ calls[c].dev
    /\ calls' = [calls EXCEPT ![c] = AfterCheckCacheDev(@, clock)]
    /\ UNCHANGED <<env, clock, cache, req, tasks, doneOrder, output, statuses, grid, ticks, http>>

ReadCache(c) ==
    /\ calls[c].pc = "read_cache"
    /\ calls' = [calls EXCEPT ![c] = AfterReadCache(@, cache[KeyOf(@)])]
    /\ UNCHANGED <<env, clock, cache, req, tasks, doneOrder, output, statuses, grid, ticks, http>>

Http(c) ==
    /\ calls[c].pc = "http"
    /\ \E r \in Responses(calls[c].cast_type) :
            calls' = [calls EXCEPT ![c] = AfterHttp(@, r)]
    /\ UNCHANGED <<env, clock, cache, req, tasks, doneOrder, output, statuses, grid, ticks, http>>

WriteOpen(c) ==
    /\ calls[c].pc = "write_open"
    /\ cache' = [cache EXCEPT ![KeyOf(calls[c])] = File("", clock)]
    /\ calls' = [calls EXCEPT ![c].pc = "write_close"]
    /\ UNCHANGED <<env, clock, req, tasks, doneOrder, output, statuses, grid, ticks, http>>

WriteClose(c) ==
    /\ calls[c].pc = "write_close"
    /\ \E tx \in WrittenTexts(cache[KeyOf(calls[c])], calls[c].text) :
            cache' = [cache EXCEPT ![KeyOf(calls[c])] = File(tx, clock)]
    /\ calls' = [calls EXCEPT ![c].pc = "done",
                              ![c].result = CacheResult(JsonLoads(calls[c].text).val, 0, "api")]
    /\ UNCHANGED <<env, clock, req, tasks, doneOrder, output, statuses, grid, ticks, http>>

Fallback(c) ==
    /\ calls[c].pc = "fallback"
    /\ calls' = [calls EXCEPT ![c] = _stale_or_none(@, cache[KeyOf(@)])]
    /\ UNCHANGED <<env, clock, cache, req, tasks, doneOrder, output, statuses, grid, ticks, http>>

\* One step of get_yrdata
CallStep(c) ==
    \/ CheckAge(c)
    \/ ReadCache(c)
    \/ Http(c)
    \/ WriteOpen(c)
    \/ WriteClose(c)
    \/ Fallback(c)

\* Time passes between the steps of the callers of get_yrdata, a minute or more at once
Tick ==
    /\ ticks < MaxTicks
    /\ \E d \in TickSteps : clock' = clock + d
    /\ ticks' = ticks + 1
    /\ UNCHANGED <<env, cache, calls, req, tasks, doneOrder, output, statuses, grid, http>>

\* ------------------------------------------------------------------------
\* app_v2.py: _process_segments, one action per stretch between two awaits.
\* A request is [segs, colormap, cm_preview, pc]; a segment is what validate_args_v2
\* returns for one s= parameter.  The weather segment at position k of async_tasks
\* is task k; its two fetches are the calls 2k-1 (nowcast) and 2k (locationforecast).
\*   req.pc: received -> gather -> returned | raised ; received -> returned
\* ------------------------------------------------------------------------
NoRequest == [segs |-> <<>>, colormap |-> "plain", cm_preview |-> FALSE, pc |-> "none"]
\* No request at the v2 handler
NoHttp == [pc |-> "none", format |-> "json_wled", cm |-> "plain", cm_preview |-> FALSE,
           s |-> <<>>, status |-> 0, error_code |-> "None"]
NoGrid ==
    [pc |-> "none", now |-> 0, slot_minutes |-> 0, slot_count |-> 0, nowcast |-> PyNone,
     forecast |-> PyNone, start |-> 0, end |-> 0, df |-> <<>>, colormap |-> EmptyDict]

\* validate_args_v2 derives slot_minutes from the program: 0 for "dark", else the
\* digits before a final "min"
ProgramMinutes ==
    [p \in {"dark", "r5min", "r15min", "r60min", "r600min"} |->
        CASE p = "dark" -> 0 [] p = "r5min" -> 5 [] p = "r15min" -> 15 [] p = "r60min" -> 60
          [] p = "r600min" -> 600]

\* segment_info of validate_args_v2
Segment(program, led_count, reversed, loc) ==
    [program |-> program, slot_minutes |-> ProgramMinutes[program], led_count |-> led_count,
     reversed |-> reversed, loc |-> loc]

IsSyncDarkOnly(segment, cm_preview) == segment.program = "dark"

\* The segments that _process_segments resolves in its loop without a fetch
IsSync(segment, cm_preview) == cm_preview \/ segment.program = "dark"

\* The loop body of _process_segments for such a segment: cm_preview is tested first
SyncTimes(segment, colormap, cm_preview) ==
    IF cm_preview
    THEN LET segment_times == _create_colormap_preview(colormap, segment.led_count)
         IN  IF segment.reversed THEN Reverse(segment_times) ELSE segment_times
    ELSE DarkSegment(segment.led_count)

\* The loop of _process_segments raises at its first segment: the colormap preview
\* of a request with cm_preview finds no colormap
LoopRaises(segs, colormap, cm_preview) ==
    cm_preview /\ segs # <<>> /\ SelectRaises(colormap)

\* async_indices
AsyncIndices(segs, cm_preview) ==
    SelectSeq([i \in 1..Len(segs) |-> i], LAMBDA i : ~IsSync(segs[i], cm_preview))

NowcastCall(k) == 2 * k - 1
ForecastCall(k) == 2 * k

NewTask(idx) ==
    [idx |-> idx, pc |-> "running", times |-> <<>>, data_status |-> "fresh", now |-> 0]

gatherCompletionOrder(ts, order) == [k \in 1..Len(ts) |-> ts[order[k]]]

\* asyncio.gather(*async_tasks): the results in the order of the awaitables
gather(ts, order) == [k \in 1..Len(ts) |-> ts[k]]

\* The loop of _process_segments up to the gather
ProcessSegments ==
    /\ req.pc = "received"
    /\ LET segs == req.segs
           idxs == AsyncIndices(segs, req.cm_preview)
       IN  IF LoopRaises(segs, req.colormap, req.cm_preview)
           THEN /\ req' = [req EXCEPT !.pc = "raised"]
                /\ UNCHANGED <<output, statuses, tasks, calls>>
           ELSE
           /\ output' = [i \in 1..Len(segs) |->
                            IF IsSync(segs[i], req.cm_preview)
                            THEN SyncTimes(segs[i], req.colormap, req.cm_preview)
                            ELSE <<>>]
           /\ statuses' = [i \in 1..Len(segs) |-> "fresh"]
           /\ tasks' = [k \in 1..Len(idxs) |-> NewTask(idxs[k])]
           /\ calls' = [c \in CallIds |->
                            IF c > 2 * Len(idxs) THEN IdleCall
                            ELSE IF c % 2 = 1 THEN get_nowcast(segs[idxs[(c + 1) \div 2]].loc)
                            ELSE get_locationforecast(segs[idxs[c \div 2]].loc)]
           /\ req' = [req EXCEPT !.pc = IF idxs = <<>> THEN "returned" ELSE "gather"]
    /\ UNCHANGED <<env, clock, cache, doneOrder, grid, ticks, http>>

\* _get_segment_data from the return of create_forecast's gather to its return
Assemble(k) ==
    /\ k \in 1..Len(tasks)
    /\ tasks[k].pc = "running"
    /\ calls[NowcastCall(k)].pc = "done"
    /\ calls[ForecastCall(k)].pc = "done"
    /\ LET segment == req.segs[tasks[k].idx]
           r == _get_segment_data(calls[NowcastCall(k)].result, calls[ForecastCall(k)].result,
                                  segment.slot_minutes, segment.led_count, req.colormap, clock)
       IN  IF SegmentRaises(calls[NowcastCall(k)].result, calls[ForecastCall(k)].result,
                            segment.slot_minutes, segment.led_count, req.colormap, clock)
           THEN /\ tasks' = [tasks EXCEPT ![k].pc = "raised"]
                /\ doneOrder' = doneOrder
           ELSE /\ tasks' = [tasks EXCEPT ![k] = [@ EXCEPT !.pc = "done", !.times = r.times,
                                                            !.data_status = r.data_status,
                                                            !.now = clock]]
                /\ doneOrder' = Append(doneOrder, k)
    /\ UNCHANGED <<env, clock, cache, calls, req, output, statuses, grid, ticks, http>>

\* create_forecast's gather re-raises what a fetch raised; the other fetch runs on
TaskRaise(k) ==
    /\ k \in 1..Len(tasks)
    /\ tasks[k].pc = "running"
    /\ calls[NowcastCall(k)].pc = "raised" \/ calls[ForecastCall(k)].pc = "raised"
    /\ tasks' = [tasks EXCEPT ![k].pc = "raised"]
    /\ UNCHANGED <<env, clock, cache, calls, req, doneOrder, output, statuses, grid, ticks, http>>

ReturnPartial ==
    /\ req.pc = "gather"
    /\ \A k \in 1..Len(tasks) : tasks[k].pc \in {"done", "raised"}
    /\ LET results == gather(tasks, doneOrder)
           idxs == AsyncIndices(req.segs, req.cm_preview)
           TaskOf(i) == CHOOSE k \in 1..Len(idxs) : idxs[k] = i
       IN  /\ output' = [i \in 1..Len(req.segs) |->
                            IF \E k \in 1..Len(idxs) : idxs[k] = i
                            THEN IF req.segs[i].reversed
                                 THEN Reverse(results[TaskOf(i)].times)
                                 ELSE results[TaskOf(i)].times
                            ELSE output[i]]
           /\ statuses' = [i \in 1..Len(req.segs) |->
                            IF \E k \in 1..Len(idxs) : idxs[k] = i
                            THEN results[TaskOf(i)].data_status
                            ELSE statuses[i]]
    /\ req' = [req EXCEPT !.pc = "returned"]
    /\ UNCHANGED <<env, clock, cache, calls, tasks, doneOrder, grid, ticks, http>>

\* The tail of _process_segments: the zip over async_indices and the results
Return ==
    /\ req.pc = "gather"
    /\ \A k \in 1..Len(tasks) : tasks[k].pc = "done"
    /\ LET results == gather(tasks, doneOrder)
           idxs == AsyncIndices(req.segs, req.cm_preview)
           TaskOf(i) == CHOOSE k \in 1..Len(idxs) : idxs[k] = i
       IN  /\ output' = [i \in 1..Len(req.segs) |->
                            IF \E k \in 1..Len(idxs) : idxs[k] = i
                            THEN IF req.segs[i].reversed
                                 THEN Reverse(results[TaskOf(i)].times)
                                 ELSE results[TaskOf(i)].times
                            ELSE output[i]]
           /\ statuses' = [i \in 1..Len(req.segs) |->
                            IF \E k \in 1..Len(idxs) : idxs[k] = i
                            THEN results[TaskOf(i)].data_status
                            ELSE statuses[i]]
    /\ req' = [req EXCEPT !.pc = "returned"]
    /\ UNCHANGED <<env, clock, cache, calls, tasks, doneOrder, grid, ticks, http>>

\* The gather of _process_segments re-raises the first exception of a task
Raise ==
    /\ req.pc = "gather"
    /\ \E k \in 1..Len(tasks) : tasks[k].pc = "raised"
    /\ req' = [req EXCEPT !.pc = "raised"]
    /\ UNCHANGED <<env, clock, cache, calls, tasks, doneOrder, output, statuses, grid, ticks, http>>

\* ------------------------------------------------------------------------
\* SpecFetch: get_yrdata called directly, by up to MaxCallers callers that contend
\* for one key, on a cache directory that holds what earlier calls left for it.
\* ------------------------------------------------------------------------

\* The files an earlier run can have left for a key: none, a valid body of some age,
\* or the mix of two overlapping writes
StartFiles(cast_type, now) ==
    {NoFile} \cup {File(tx, now - a) : tx \in ValidTexts(cast_type), a \in StartAges}
             \cup {File("garbage", now - SetMin(StartAges))}

FetchLocation == Helsinki

InitFetch ==
    /\ env \in DstEnvs(DstAtFetch)
    /\ clock = SetMin(StartClocks)
    /\ \E k \in CacheKeys : \E file \in StartFiles(k[1], clock) :
            /\ k[2] = FetchLocation
            /\ cache = [j \in CacheKeys |-> IF j = k THEN file ELSE NoFile]
    /\ calls = [c \in CallIds |-> IdleCall]
    /\ req = NoRequest
    /\ tasks = <<>>
    /\ doneOrder = <<>>
    /\ output = <<>>
    /\ statuses = <<>>
    /\ grid = NoGrid
    /\ ticks = 0
    /\ http = NoHttp

\* A caller calls get_yrdata(lat, lon, cast_type)
StartCall(c) ==
    /\ c \in 1..MaxCallers
    /\ calls[c].pc = "idle"
    /\ \E ct \in CastTypes :
            /\ \A k \in CacheKeys : k # _get_cache_path(FetchLocation, ct) => cache[k] = NoFile
            /\ calls' = [calls EXCEPT ![c] = NewCall(ct, FetchLocation)]
    /\ UNCHANGED <<env, clock, cache, req, tasks, doneOrder, output, statuses, grid, ticks, http>>

NextFetch ==
    \/ \E c \in CallIds : StartCall(c)
    \/ \E c \in CallIds : CallStep(c)
    \/ Tick

SpecFetch == InitFetch /\ [][NextFetch]_vars

\* ------------------------------------------------------------------------
\* Spec: one request through _process_segments, its fetches running concurrently on
\* a cache directory that holds what earlier requests left, of the ages StartAges.
\* client.get gives up after 10 s (httpx.Timeout(10.0)) and the thresholds are minutes
\* and hours, so the clock stands while the request is in flight.
\* ------------------------------------------------------------------------
MaxCovered == 1     \* weather segments of a request inside the nowcast coverage

\* The segments of a request: weather segments of MaxReqLeds LEDs inside the nowcast
\* coverage, outside of it and at a latitude get_locationforecast refuses, and dark
\* segments of any length
RequestSegments ==
    {Segment("r15min", MaxReqLeds, FALSE, Helsinki),
     Segment("r15min", MaxReqLeds, TRUE, Madrid),
     Segment("r15min", MaxReqLeds, FALSE, NorthPole)}
        \cup {Segment("dark", n, FALSE, Helsinki) : n \in 1..MaxReqLeds}

Covered(segs) ==
    {i \in 1..Len(segs) :
        segs[i].program # "dark" /\ contains(NOWCAST_COVERAGE, segs[i].loc.lon, segs[i].loc.lat)}

RECURSIVE SeqsUpTo(_, _)
SeqsUpTo(S, n) ==
    IF n = 0 THEN {<<>>}
    ELSE LET shorter == SeqsUpTo(S, n - 1)
         IN  shorter \cup {Append(q, x) : q \in shorter, x \in S}

\* The cache directory at start: empty, or every key holding a body of one age
StartCaches(now) ==
    {[j \in CacheKeys |-> NoFile]}
        \cup {[j \in CacheKeys |-> File(IF j[1] = "nowcast" THEN "now_a" ELSE "fore_a", now - a)] :
                a \in StartAges}

Init ==
    /\ env \in DstEnvs(DstAtStart)
    /\ clock = SetMin(StartClocks)
    /\ cache \in StartCaches(clock)
    /\ calls = [c \in CallIds |-> IdleCall]
    /\ \E segs \in SeqsUpTo(RequestSegments, MaxSegs) \ {<<>>}, cm_preview \in BOOLEAN :
            /\ Cardinality(Covered(segs)) <= MaxCovered
            /\ req = [segs |-> segs, colormap |-> "plain", cm_preview |-> cm_preview,
                      pc |-> "received"]
    /\ tasks = <<>>
    /\ doneOrder = <<>>
    /\ output = <<>>
    /\ statuses = <<>>
    /\ grid = NoGrid
    /\ ticks = 0
    /\ http = NoHttp

Next ==
    \/ ProcessSegments
    \/ \E c \in CallIds : CallStep(c)
    \/ \E k \in 1..MaxSegs : Assemble(k)
    \/ \E k \in 1..MaxSegs : TaskRaise(k)
    \/ Return
    \/ Raise

Spec == Init /\ [][Next]_vars

\* ------------------------------------------------------------------------
\* Claims on get_yrdata (SpecFetch)
\* ------------------------------------------------------------------------
\* Call c got the valid body tx from the upstream whenever it asked the upstream
GotBody(c, tx) ==
    \/ calls[c].gets = 0
    \/ calls[c].gets = 1 /\ calls[c].text = tx /\ calls[c].result.source = "api"

\* c1 and c2 are two successive calls for one key, alone on it, the second within the
\* TTL of the first, with an upstream that returns the same valid body (which is also
\* what the cache held, if it held a valid body)
SuccessivePair(c1, c2) ==
    /\ c1 # c2
    /\ calls[c1].pc = "done" /\ calls[c2].pc = "done"
    /\ KeyOf(calls[c1]) = KeyOf(calls[c2])
    /\ c1 \in calls[c2].after
    /\ \A d \in CallIds \ {c1, c2} : calls[d].pc = "idle"
    /\ calls[c2].t_lookup - calls[c1].t_lookup <= CACHE_TTL_SECONDS
    /\ \E tx \in ValidTexts(calls[c1].cast_type) :
            /\ GotBody(c1, tx) /\ GotBody(c2, tx)
            /\ calls[c1].found \notin (ValidTexts(calls[c1].cast_type) \ {tx})

\* C9: two successive get_yrdata calls for one key, the second within CACHE_TTL_SECONDS
\* of the first, against an upstream that returns the same valid body, return the
\* same data and issue at most one upstream call between them; when the first one
\* calls the upstream it writes the cache and the second is served from the fresh
\* entry without an upstream call.
C9_CacheIdempotence ==
    \A c1, c2 \in CallIds :
        SuccessivePair(c1, c2) =>
            /\ calls[c1].result.data = calls[c2].result.data
            /\ calls[c1].gets + calls[c2].gets <= 1
            /\ calls[c1].gets = 1 =>
                    /\ calls[c1].result.source = "api"
                    /\ cache[KeyOf(calls[c1])].text = calls[c1].text
                    /\ cache[KeyOf(calls[c1])].mtime >= calls[c1].t_lookup
                    /\ calls[c2].result.source = "cache_fresh"
                    /\ calls[c2].gets = 0

\* ------------------------------------------------------------------------
\* SpecGrid: get_start_and_end and create_combined_forecast applied to drawn inputs:
\* a reference time, a slot length, a slot count, and a nowcast and a forecast that
\* are each null, empty, partial or covering the window.
\* ------------------------------------------------------------------------
MaxSlots == 4

\* Reference times (seconds): on the hour, inside a slot, on slot boundaries, just
\* off them, and in the next hour
GridNows == {0, 130, 300, 899, 900, 901, 1800, 3599, 4500}

GridSlotMinutes == {5, 15, 30, 45, 60}

GridNowcasts == {PyNone, JsonObj(<<>>), JsonEmptyObj, NowDocB, NowDocA}
GridForecasts == {PyNone, JsonObj(<<>>), JsonEmptyObj, ForeDocB, ForeDocA}

InitGrid ==
    /\ env = DefaultEnv
    /\ clock = 0
    /\ cache = [j \in CacheKeys |-> NoFile]
    /\ calls = [c \in CallIds |-> IdleCall]
    /\ req = NoRequest
    /\ tasks = <<>>
    /\ doneOrder = <<>>
    /\ output = <<>>
    /\ statuses = <<>>
    /\ ticks = 0
    /\ http = NoHttp
    /\ \E now \in GridNows, slot_minutes \in GridSlotMinutes, slot_count \in 0..MaxSlots,
          nowcast \in GridNowcasts, forecast \in GridForecasts :
            grid = [NoGrid EXCEPT !.pc = "input", !.now = now, !.slot_minutes = slot_minutes,
                                  !.slot_count = slot_count, !.nowcast = nowcast,
                                  !.forecast = forecast]

GetStartAndEnd ==
    /\ grid.pc = "input"
    /\ LET se == get_start_and_end(grid.slot_minutes, grid.slot_count, grid.now)
       IN  grid' = [grid EXCEPT !.pc = "window", !.start = se.start, !.end = se.end]
    /\ UNCHANGED <<env, clock, cache, calls, req, tasks, doneOrder, output, statuses, ticks, http>>

CreateCombinedForecast ==
    /\ grid.pc = "input"
    /\ grid' = IF CombineRaises(grid.nowcast, grid.forecast)
               THEN [grid EXCEPT !.pc = "raised"]
               ELSE [grid EXCEPT
                        !.pc = "combined",
                        !.df = create_combined_forecast(grid.nowcast, grid.forecast,
                                                        grid.slot_minutes, grid.slot_count,
                                                        grid.now)]
    /\ UNCHANGED <<env, clock, cache, calls, req, tasks, doneOrder, output, statuses, ticks, http>>

NextGrid == GetStartAndEnd \/ CreateCombinedForecast

SpecGrid == InitGrid /\ [][NextGrid]_vars

\* C7: get_start_and_end(slot_minutes, slot_count, now) returns T0 and the end with
\* T0 <= now < T0 + slot_minutes, T0 the top of now's hour plus a whole number of
\* slot_minutes, and end = T0 + slot_count * slot_minutes.
C7_SlotAlignment ==
    grid.pc = "window" =>
        LET slot_seconds == grid.slot_minutes * SecondsPerMinute
            top == grid.now - (grid.now % SecondsPerHour)
        IN  /\ grid.start <= grid.now
            /\ grid.now < grid.start + slot_seconds
            /\ grid.start >= top
            /\ (grid.start - top) % slot_seconds = 0
            /\ grid.end = grid.start + grid.slot_count * slot_seconds

\* C8: create_combined_forecast returns exactly slot_count rows, at the times
\* T0, T0 + slot_minutes, ..., T0 + (slot_count - 1) * slot_minutes, T0 being the start
\* that get_start_and_end gives, whatever the nowcast and the forecast hold.
C8_GridShape ==
    grid.pc = "combined" =>
        LET T0 == get_start_and_end(grid.slot_minutes, grid.slot_count, grid.now).start
        IN  /\ Len(grid.df) = grid.slot_count
            /\ \A k \in 1..grid.slot_count :
                    grid.df[k].time = T0 + (k - 1) * grid.slot_minutes * SecondsPerMinute

\* A grid whose merged frame lacked rows of the window before the reindex
C8_Witness ==
    /\ grid.pc = "combined"
    /\ grid.nowcast = NowDocB
    /\ grid.forecast = ForeDocB
    /\ Len(MergeOf(grid.nowcast, grid.forecast, grid.slot_minutes, grid.slot_count,
                   grid.now)) < grid.slot_count
    /\ Len(grid.df) = grid.slot_count

\* ------------------------------------------------------------------------
\* SpecSegment: _process_segments on a request that holds one segment twice, forwards
\* and reversed.  The two tasks fetch on their own, with the steps of their get_yrdata
\* calls interleaved, so the second may be served from the file the first has just
\* written, or fall back to the old file where the first got a new body.  Outside
\* the nowcast coverage (Madrid) a task has the forecast fetch only; inside it
\* (Helsinki, in 5-minute slots, the step of the radar samples) the two tasks also
\* read the nowcast from the cache.
\* validate_args_v2 takes any integer as led_count; the segments here have 0 to
\* MaxSegLeds LEDs.
\* ------------------------------------------------------------------------
MaxSegLeds == 3

SegPrograms == {"dark", "r5min", "r15min", "r60min"}
SegColormaps == {"night", "nope"}

\* Ages of the forecast file at the request: past the stale and past the error threshold
SegmentAges == {3600, 20000}

\* The forecast file of the location at the request: none, or a body of one age
SegmentFiles(now) == {NoFile} \cup {File("fore_a", now - a) : a \in SegmentAges}

\* The cache directory at the request: the forecast file of the location and, inside
\* the nowcast coverage, a nowcast file within the TTL
SegmentCache(loc, file, now) ==
    [j \in CacheKeys |->
        IF j[2] # loc THEN NoFile
        ELSE IF j[1] = "locationforecast" THEN file
        ELSE IF contains(NOWCAST_COVERAGE, loc.lon, loc.lat)
             THEN File("now_a", now - SetMin(StartAges))
             ELSE NoFile]

InitSegment ==
    /\ env \in ColormapEnvs
    /\ clock = SetMax(StartClocks)
    /\ calls = [c \in CallIds |-> IdleCall]
    /\ \E p \in SegPrograms, n \in 0..MaxSegLeds, cm \in SegColormaps, cm_preview \in BOOLEAN,
          loc \in {Madrid, Helsinki}, file \in SegmentFiles(clock) :
            /\ env = DefaultEnv \/ (p = "r15min" /\ n = MaxSegLeds)
            /\ p = "r5min" <=> loc = Helsinki
            /\ loc = Helsinki =>
                    /\ n = MaxSegLeds /\ cm = "night" /\ ~cm_preview /\ env = DefaultEnv
                    /\ file = File("fore_a", clock - SetMin(SegmentAges))
            /\ cache = SegmentCache(loc, file, clock)
            /\ req = [segs |-> <<Segment(p, n, FALSE, loc), Segment(p, n, TRUE, loc)>>,
                      colormap |-> cm, cm_preview |-> cm_preview, pc |-> "received"]
    /\ tasks = <<>>
    /\ doneOrder = <<>>
    /\ output = <<>>
    /\ statuses = <<>>
    /\ grid = NoGrid
    /\ ticks = 0
    /\ http = NoHttp

SpecSegment == InitSegment /\ [][Next]_vars

\* ------------------------------------------------------------------------
\* Claims on the segments of a request (SpecSegment)
\* ------------------------------------------------------------------------
Black == <<0, 0, 0>>

\* The word rain, sleet or snow occurs in the symbol code
IsRainWord(symbol) ==
    \/ symbol \in FamilySymbols("light") \cup FamilySymbols("heavy") \cup FamilySymbols("")
    \/ symbol \in {"lightssleetshowersandthunder", "lightssnowshowersandthunder", "freezingrain"}

\* A row has no bucket: no positive rate, and a symbol that is missing or no key of
\* the map (and, at rate 0, holds no rain word)
NoBucket(row) ==
    /\ row.prec_now = NaN \/ row.prec_now <= 0
    /\ row.symbol = None \/ row.symbol \notin symbolmapKeys
    /\ row.prec_now # NaN => (row.symbol = None \/ ~IsRainWord(row.symbol))

\* What _get_segment_data gives task k from the results of its two fetches
SegmentDataOf(k) ==
    LET segment == req.segs[tasks[k].idx]
    IN  _get_segment_data(calls[NowcastCall(k)].result, calls[ForecastCall(k)].result,
                          segment.slot_minutes, segment.led_count, req.colormap, tasks[k].now)

\* The same with both fetch results as fresh as a result can be
FreshDataOf(k) ==
    LET segment == req.segs[tasks[k].idx]
        nr == calls[NowcastCall(k)].result
        fr == calls[ForecastCall(k)].result
    IN  _get_segment_data([nr EXCEPT !.cache_age_seconds = IF @ = NaN THEN NaN ELSE 0],
                          [fr EXCEPT !.cache_age_seconds = IF @ = NaN THEN NaN ELSE 0],
                          segment.slot_minutes, segment.led_count, req.colormap, tasks[k].now)

DoneTasks == {k \in 1..Len(tasks) : tasks[k].pc = "done"}

\* The slot of segment i at position j of the time-ascending order
PreReversal(i, j) ==
    output[i][IF req.segs[i].reversed THEN Len(output[i]) + 1 - j ELSE j]

\* C2: the output of every dark segment of a request has exactly led_count slots, all
\* with rgb [0,0,0] and wl_symbol dark, whatever cm_preview and the colormap are.
C2_DarkSegment ==
    req.pc = "returned" =>
        \A i \in 1..Len(req.segs) :
            req.segs[i].program = "dark" =>
                /\ Len(output[i]) = req.segs[i].led_count
                /\ \A j \in 1..Len(output[i]) :
                        output[i][j].rgb = Black /\ output[i][j].wl_symbol = "dark"

\* C3: a weather segment of data_status stale has exactly one slot with wl_symbol
\* stale_indicator; that slot has rgb [255,0,128] and is the last one in time-ascending
\* order (the first output slot of a reversed segment); every other slot is the slot
\* the same data gives when it is fresh.
C3_StaleIndicator ==
    /\ \A k \in DoneTasks :
            tasks[k].data_status = "stale" =>
                LET times == tasks[k].times
                    n == Len(times)
                IN  /\ n = req.segs[tasks[k].idx].led_count
                    /\ {j \in 1..n : times[j].wl_symbol = "stale_indicator"} = {n}
                    /\ times[n].rgb = <<255, 0, 128>>
                    /\ FreshDataOf(k).data_status = "fresh"
                    /\ \A j \in 1..(n - 1) : times[j] = FreshDataOf(k).times[j]
    /\ req.pc = "returned" =>
            \A i \in 1..Len(req.segs) :
                statuses[i] = "stale" =>
                    LET n == Len(output[i])
                        marked == IF req.segs[i].reversed THEN 1 ELSE n
                    IN  /\ {j \in 1..n : output[i][j].wl_symbol = "stale_indicator"} = {marked}
                        /\ output[i][marked].rgb = <<255, 0, 128>>

\* C4: a weather segment of data_status error has exactly led_count slots and, in
\* time-ascending order, the slot at 0-based position j is [255,0,128] for even j
\* and [0,0,0] for odd j, whatever the colormap and the fetched data.
C4_ErrorPattern ==
    req.pc = "returned" =>
        \A i \in 1..Len(req.segs) :
            (~IsSync(req.segs[i], req.cm_preview) /\ statuses[i] = "error") =>
                /\ Len(output[i]) = req.segs[i].led_count
                /\ \A j \in 1..Len(output[i]) :
                        PreReversal(i, j).rgb =
                            IF (j - 1) % 2 = 0 THEN <<255, 0, 128>> ELSE Black

C4_Witness ==
    /\ req.pc = "returned"
    /\ statuses = <<"error", "error">>
    /\ Len(output[1]) = MaxSegLeds
    /\ calls[ForecastCall(1)].result.source = "cache_stale"
    /\ output[1][2].rgb = Black

\* C5 as stated: every slot of a weather segment of data_status fresh has one of the
\* eight bucket names as wl_symbol and the colormap's entry for it as rgb, and there
\* are led_count slots.
C5_FreshBuckets ==
    req.pc = "returned" =>
        \A i \in 1..Len(req.segs) :
            (~IsSync(req.segs[i], req.cm_preview) /\ statuses[i] = "fresh") =>
                /\ Len(output[i]) = req.segs[i].led_count
                /\ \A j \in 1..Len(output[i]) :
                        /\ output[i][j].wl_symbol \in Buckets
                        /\ output[i][j].rgb = SelectColormap(req.colormap)[output[i][j].wl_symbol]

\* C5 amended: a weather segment of data_status fresh has led_count slots; the
\* wl_symbol of a slot is one of the eight bucket names, with the colormap's entry for
\* it as rgb, or it is UNKNOWN, with the colormap's CLOUDY entry as rgb; it is UNKNOWN
\* exactly when the slot has no positive nowcast rate and its forecast symbol is
\* missing or no key of the symbol map and, where the nowcast rate is 0, holds none
\* of the words rain, sleet, snow; hex is the rgb in hexadecimal.  The colormap is the
\* named one or, when that name is not loaded, the first one loaded.
C5_FreshBucketsOrUnknown ==
    req.pc = "returned" =>
        \A i \in 1..Len(req.segs) :
            (~IsSync(req.segs[i], req.cm_preview) /\ statuses[i] = "fresh") =>
                /\ Len(output[i]) = req.segs[i].led_count
                /\ \A j \in 1..Len(output[i]) :
                        LET slot == output[i][j]
                            colormap == IF req.colormap \in Range(ColormapNames)
                                        THEN COLORMAPS(req.colormap)
                                        ELSE COLORMAPS(ColormapNames[1])
                        IN  /\ slot.wl_symbol \in Buckets \cup {"UNKNOWN"}
                            /\ slot.wl_symbol = "UNKNOWN"
                                    <=> NoBucket([prec_now |-> slot.prec_nowcast,
                                                  symbol |-> slot.yr_symbol])
                            /\ slot.rgb = IF slot.wl_symbol = "UNKNOWN" THEN colormap["CLOUDY"]
                                          ELSE colormap[slot.wl_symbol]
                            /\ slot.hex = HexOf(slot.rgb)

C5_Witness ==
    /\ req.pc = "returned"
    /\ req.colormap = "night"
    /\ statuses = <<"fresh", "fresh">>
    /\ \E j \in 1..Len(output[1]) :
            output[1][j].wl_symbol = "UNKNOWN" /\ output[1][j].prec_nowcast = 0
    /\ \E j \in 1..Len(output[1]) : output[1][j].wl_symbol \in Buckets \ {"CLOUDY"}

\* The fetches of the two tasks returned the same data of the same age (the tasks run
\* at one clock); a request without tasks has nothing fetched
SameFetched ==
    \A k \in 1..Len(tasks) :
        /\ calls[NowcastCall(k)].result.data = calls[NowcastCall(1)].result.data
        /\ calls[NowcastCall(k)].result.cache_age_seconds
                = calls[NowcastCall(1)].result.cache_age_seconds
        /\ calls[ForecastCall(k)].result.data = calls[ForecastCall(1)].result.data
        /\ calls[ForecastCall(k)].result.cache_age_seconds
                = calls[ForecastCall(1)].result.cache_age_seconds
        /\ tasks[k].now = tasks[1].now

\* C6: the output of the reversed segment is the reverse of the output of the same
\* segment not reversed, with the same data_status, for dark segments, previews and
\* weather segments of every status, when the fetched data, the clock and the
\* colormap are the same for both.
C6_Reversal ==
    (req.pc = "returned" /\ SameFetched) =>
        /\ Len(output[2]) = Len(output[1])
        /\ \A j \in 1..Len(output[1]) : output[2][j] = output[1][Len(output[1]) + 1 - j]
        /\ statuses[2] = statuses[1]

C6_Witness ==
    /\ req.pc = "returned"
    /\ SameFetched
    /\ Len(tasks) = 2
    /\ calls[NowcastCall(1)].result.source = "cache_fresh"
    /\ calls[ForecastCall(2)].result.source = "cache_stale"
    /\ statuses = <<"stale", "stale">>
    /\ Len(output[1]) = MaxSegLeds
    /\ output[1] # output[2]
    /\ output[2][1] = output[1][MaxSegLeds]

\* ------------------------------------------------------------------------
\* Claims on a request and its concurrent fetches (Spec)
\* ------------------------------------------------------------------------
\* The task that _process_segments created for segment i
TaskFor(i) == CHOOSE k \in 1..Len(tasks) : tasks[k].idx = i

\* C1: _process_segments returns one slot list and one data_status per segment of
\* the request, and those at position i are the ones of segment i: the dark slots or
\* the preview of segment i, or what _get_segment_data gives for the parameters of
\* segment i and the results of the fetches made for its location, reversed when
\* segment i is reversed, in whatever order the tasks completed.
C1_OutputOrder ==
    req.pc = "returned" =>
        /\ Len(output) = Len(req.segs)
        /\ Len(statuses) = Len(req.segs)
        /\ \A i \in 1..Len(req.segs) :
                IF IsSync(req.segs[i], req.cm_preview)
                THEN /\ output[i] = SyncTimes(req.segs[i], req.colormap, req.cm_preview)
                     /\ statuses[i] = "fresh"
                ELSE /\ \E k \in 1..Len(tasks) : tasks[k].idx = i
                     /\ LET k == TaskFor(i)
                            own == SegmentDataOf(k)
                        IN  /\ calls[NowcastCall(k)].loc = req.segs[i].loc
                            /\ calls[ForecastCall(k)].loc = req.segs[i].loc
                            /\ Len(output[i]) = Len(own.times)
                            /\ \A j \in 1..Len(output[i]) : PreReversal(i, j) = own.times[j]
                            /\ statuses[i] = own.data_status

\* Two weather tasks with different results, the second completing first
C1_Witness ==
    /\ req.pc = "returned"
    /\ Len(tasks) = 2
    /\ doneOrder = <<2, 1>>
    /\ tasks[1].times # tasks[2].times
    /\ statuses[1] # statuses[2]

\* The time from the writing of the file that call c found to its lookup
EntryAge(c) == calls[c].t_lookup - calls[c].found_mtime

\* Call c fell back to the cache after the upstream failed, and the file it had found
\* for its key and still found at the fallback is a valid body older than the TTL
StaleFallback(c) ==
    /\ calls[c].pc \in {"done", "raised"}
    /\ calls[c].gets = 1
    /\ calls[c].result.source # "api"
    /\ calls[c].found \in ValidTexts(calls[c].cast_type)
    /\ calls[c].fallback = calls[c].found
    /\ EntryAge(c) > CACHE_TTL_SECONDS

WellFormed(times, led_count) ==
    /\ Len(times) = led_count
    /\ \A j \in 1..Len(times) :
            /\ Len(times[j].rgb) = 3
            /\ \A x \in 1..3 : times[j].rgb[x] \in 0..255
            /\ times[j].hex = HexOf(times[j].rgb)

\* The age of the data that call c returned: 0 from the upstream, the age of the
\* entry from the cache
DataAge(c) ==
    IF calls[c].result.source = "none" THEN NaN
    ELSE IF calls[c].result.source = "api" THEN 0
    ELSE EntryAge(c)

\* The data_status that the age thresholds give the segment of task k
StatusByAge(k) ==
    LET ages == {DataAge(NowcastCall(k)), DataAge(ForecastCall(k))} \ {NaN}
    IN  IF calls[ForecastCall(k)].result.source = "none" THEN "error"
        ELSE IF \E a \in ages : a > ERROR_THRESHOLD_S THEN "error"
        ELSE IF \E a \in ages : a > STALE_WARNING_THRESHOLD_S THEN "stale"
        ELSE "fresh"

\* C10: when the upstream fails and a valid cache entry older than the TTL exists,
\* get_yrdata returns that entry's data with the stale source, and the segment built
\* on it has led_count well-formed slots and the data_status that the age thresholds
\* give the older of its two fetch results (error above 3 hours or without a
\* forecast, stale above 30 minutes).
C10_StaleFallback ==
    \A k \in 1..Len(tasks) : \A c \in {NowcastCall(k), ForecastCall(k)} :
        StaleFallback(c) =>
            /\ calls[c].result.data = Docs(calls[c].found)
            /\ calls[c].result.source = "cache_stale"
            /\ tasks[k].pc = "done" =>
                    /\ tasks[k].data_status = StatusByAge(k)
                    /\ WellFormed(tasks[k].times, req.segs[tasks[k].idx].led_count)

\* ------------------------------------------------------------------------
\* Claims about the request machine when fetches end without data or raise
\* ------------------------------------------------------------------------
HotPink == <<255, 0, 128>>

\* The ForecastResult that create_forecast builds for task k
ForecastResultOf(k) ==
    LET segment == req.segs[tasks[k].idx]
    IN  create_forecast(calls[NowcastCall(k)].result, calls[ForecastCall(k)].result,
                        segment.slot_minutes, segment.led_count, clock)

\* Both fetches of task k have returned
Fetched(k) == calls[NowcastCall(k)].pc = "done" /\ calls[ForecastCall(k)].pc = "done"

\* The data_status that the thresholds give the ages of the two fetch results of task k
StatusOfResults(k) ==
    LET nr == calls[NowcastCall(k)].result
        fr == calls[ForecastCall(k)].result
        ages == {nr.cache_age_seconds, fr.cache_age_seconds} \ {NaN}
    IN  IF fr.source = "none" THEN "error"
        ELSE IF \E a \in ages : a > ERROR_THRESHOLD_S THEN "error"
        ELSE IF \E a \in ages : a > STALE_WARNING_THRESHOLD_S THEN "stale"
        ELSE "fresh"

\* times is the error pattern of n slots in time-ascending order
IsErrorPattern(times, n) ==
    /\ Len(times) = n
    /\ \A j \in 1..Len(times) :
            /\ times[j].rgb = IF j % 2 = 1 THEN HotPink ELSE Black
            /\ times[j].wl_symbol = "error"

\* C11: when the forecast fetch of a weather segment returns source none, whatever
\* the nowcast fetch returned, the segment's task does not raise and yields the error
\* pattern of led_count slots with status error; has_data is false exactly then; the
\* request raises only if a fetch raised; and in the returned output the segment
\* shows the error pattern while every other segment shows its own rendering.
C11_NoForecastData ==
    /\ \A k \in 1..Len(tasks) :
            Fetched(k) =>
                LET none == calls[ForecastCall(k)].result.source = "none"
                IN  /\ ForecastResultOf(k).has_data <=> ~none
                    /\ none => tasks[k].pc # "raised"
                    /\ none /\ tasks[k].pc = "done" =>
                            /\ tasks[k].data_status = "error"
                            /\ IsErrorPattern(tasks[k].times, req.segs[tasks[k].idx].led_count)
    /\ req.pc = "raised" => \E c \in CallIds : calls[c].pc = "raised"
    /\ req.pc = "returned" =>
            \A k \in 1..Len(tasks) :
                LET i == tasks[k].idx
                IN  IF calls[ForecastCall(k)].result.source = "none"
                    THEN /\ statuses[i] = "error"
                         /\ IsErrorPattern([j \in 1..Len(output[i]) |-> PreReversal(i, j)],
                                           req.segs[i].led_count)
                    ELSE /\ statuses[i] = StatusOfResults(k)
                         /\ [j \in 1..Len(output[i]) |-> PreReversal(i, j)] = SegmentDataOf(k).times

\* A returned request of two weather segments: the first without forecast data but
\* with a nowcast, the second fresh
C11_Witness ==
    /\ req.pc = "returned"
    /\ Len(tasks) = 2
    /\ calls[ForecastCall(1)].result.source = "none"
    /\ calls[NowcastCall(1)].result.source # "none"
    /\ statuses = <<"error", "fresh">>
    /\ Len(output[1]) = MaxReqLeds
    /\ output[2][1].wl_symbol \in Buckets

\* C12: the data_status of the ForecastResult of create_forecast is error iff has_data
\* is false or max_cache_age_seconds exceeds ERROR_THRESHOLD_S, stale iff it is not
\* error and max_cache_age_seconds exceeds STALE_WARNING_THRESHOLD_S, and fresh
\* otherwise, max_cache_age_seconds being the largest non-null age of the two fetches.
C12_ForecastResultStatus ==
    \A k \in 1..Len(tasks) :
        Fetched(k) =>
            LET r == ForecastResultOf(k)
                ages == {calls[c].result.cache_age_seconds :
                            c \in {NowcastCall(k), ForecastCall(k)}} \ {NaN}
                too_old == \E a \in ages : a > ERROR_THRESHOLD_S
                old == \E a \in ages : a > STALE_WARNING_THRESHOLD_S
                error == ~r.has_data \/ too_old
            IN  /\ r.max_cache_age_seconds = IF ages = {} THEN NaN ELSE SetMax(ages)
                /\ r.data_status = "error" <=> error
                /\ r.data_status = "stale" <=> (old /\ ~error)
                /\ r.data_status = "fresh" <=> (~old /\ ~error)

\* ------------------------------------------------------------------------
\* app_v2.py: the v2 handler.  A request is [format, cm, cm_preview, s]; s is the list
\* of the segment strings of the s parameter, each split at its commas: parts is the
\* number of its parts, led_count the text of part 2, reversed the integer of part 3.
\*   http.pc: arrived -> processing -> responded ; arrived -> responded
\* ------------------------------------------------------------------------
MAX_FORECAST_DURATION_HOURS == 200
SEGMENT_PARTS == 6
MinutesPerHour == 60

\* int(parts[2]): the texts that are integers; any other text is a ValueError
PyInt == [t \in {"0", "1", "2", "21"} |->
            CASE t = "0" -> 0 [] t = "1" -> 1 [] t = "2" -> 2 [] t = "21" -> 21]

RawSegment(parts, program, led_count, reversed, loc) ==
    [parts |-> parts, program |-> program, led_count |-> led_count, reversed |-> reversed,
     loc |-> loc]

\* The body of the loop of validate_args_v2 for one segment string: the error_code of
\* the HTTPException it raises, or None
SegmentError(raw) ==
    IF raw.parts # SEGMENT_PARTS THEN "INVALID_SEGMENT_FORMAT"
    ELSE IF raw.led_count \notin DOMAIN PyInt THEN "INVALID_SEGMENT_DATA"
    ELSE IF raw.reversed \notin {0, 1} THEN "INVALID_SEGMENT_DATA"
    ELSE IF raw.program \notin DOMAIN ProgramMinutes THEN "INVALID_SEGMENT_DATA"
    ELSE IF /\ raw.program # "dark"
            /\ ProgramMinutes[raw.program] * PyInt[raw.led_count]
                    > MAX_FORECAST_DURATION_HOURS * MinutesPerHour
         THEN "DURATION_TOO_LONG"
    ELSE "None"

validate_args_v2(request) ==
    IF request.s = <<>>
    THEN [ok |-> FALSE, error_code |-> "MISSING_S_QUERY_PARAM", segments |-> <<>>]
    ELSE LET bad == {i \in 1..Len(request.s) : SegmentError(request.s[i]) # "None"}
         IN  IF bad # {}
             THEN [ok |-> FALSE, error_code |-> SegmentError(request.s[SetMin(bad)]),
                   segments |-> <<>>]
             ELSE [ok |-> TRUE, error_code |-> "None",
                   segments |-> [i \in 1..Len(request.s) |->
                                    Segment(request.s[i].program, PyInt[request.s[i].led_count],
                                            request.s[i].reversed = 1, request.s[i].loc)]]

\* The formats v2 knows
Formats == {"html", "json", "json_wled", "bin"}

HTTP_BAD_REQUEST == 400
HTTP_INTERNAL_SERVER_ERROR == 500

\* v2 up to the await of _process_segments; http_exception_handler answers an
\* HTTPException with its status code
ValidateArgs ==
    /\ http.pc = "arrived"
    /\ LET v == validate_args_v2(http)
       IN  IF v.ok
           THEN /\ req' = [segs |-> v.segments, colormap |-> http.cm,
                           cm_preview |-> http.cm_preview, pc |-> "received"]
                /\ http' = [http EXCEPT !.pc = "processing"]
           ELSE /\ req' = req
                /\ http' = [http EXCEPT !.pc = "responded", !.status = HTTP_BAD_REQUEST,
                                        !.error_code = v.error_code]
    /\ UNCHANGED <<env, clock, cache, calls, tasks, doneOrder, output, statuses, grid, ticks>>

\* v2 after _process_segments returned: the response in the requested format, or the
\* HTTPException for a format that is none of the four
Respond ==
    /\ http.pc = "processing"
    /\ req.pc = "returned"
    /\ http' = IF http.format \in Formats
               THEN [http EXCEPT !.pc = "responded", !.status = HTTP_OK]
               ELSE [http EXCEPT !.pc = "responded", !.status = HTTP_BAD_REQUEST,
                                 !.error_code = "INVALID_FORMAT"]
    /\ UNCHANGED <<env, clock, cache, calls, req, tasks, doneOrder, output, statuses, grid, ticks>>

\* generic_exception_handler: what _process_segments raised becomes a 500
RespondError ==
    /\ http.pc = "processing"
    /\ req.pc = "raised"
    /\ http' = [http EXCEPT !.pc = "responded", !.status = HTTP_INTERNAL_SERVER_ERROR,
                            !.error_code = "INTERNAL_SERVER_ERROR"]
    /\ UNCHANGED <<env, clock, cache, calls, req, tasks, doneOrder, output, statuses, grid, ticks>>

\* The cache directory holds nothing or entries within the TTL; a request has at most
\* MaxCovered weather segments inside the nowcast coverage.
\* The segment strings of the requests: a weather segment inside the nowcast
\* coverage, one outside of it with no LED, one at a latitude get_locationforecast
\* refuses, a reversed dark segment, and strings with five parts, a led_count that is
\* no integer, a reversed flag of 2, a program without minutes, and 210 hours
RawSegments ==
    {RawSegment(6, "r15min", "2", 0, Helsinki),
     RawSegment(6, "r15min", "0", 0, Madrid),
     RawSegment(6, "r15min", "1", 0, NorthPole),
     RawSegment(6, "dark", "21", 1, Helsinki),
     RawSegment(5, "r15min", "2", 0, Madrid),
     RawSegment(6, "r15min", "x", 0, Madrid),
     RawSegment(6, "r15min", "2", 2, Madrid),
     RawSegment(6, "rain", "2", 0, Madrid),
     RawSegment(6, "r600min", "21", 0, Madrid)}

RequestFormats == {"json", "xml"}

InitV2 ==
    /\ env = DefaultEnv
    /\ clock = SetMin(StartClocks)
    /\ cache \in {files \in StartCaches(clock) :
                    \A j \in CacheKeys :
                        files[j].exists => IsFreshAge(_check_cache_file_age(files[j], clock))}
    /\ calls = [c \in CallIds |-> IdleCall]
    /\ req = NoRequest
    /\ tasks = <<>>
    /\ doneOrder = <<>>
    /\ output = <<>>
    /\ statuses = <<>>
    /\ grid = NoGrid
    /\ ticks = 0
    /\ \E s \in SeqsUpTo(RawSegments, MaxSegs), format \in RequestFormats, cm_preview \in BOOLEAN :
            /\ Cardinality(Covered(s)) <= MaxCovered
            /\ http = [NoHttp EXCEPT !.pc = "arrived", !.format = format, !.s = s,
                                     !.cm_preview = cm_preview]

NextV2 ==
    \/ ValidateArgs
    \/ ProcessSegments
    \/ \E c \in CallIds : CallStep(c)
    \/ \E k \in 1..MaxSegs : Assemble(k)
    \/ \E k \in 1..MaxSegs : TaskRaise(k)
    \/ Return
    \/ Raise
    \/ Respond
    \/ RespondError

SpecV2 == InitV2 /\ [][NextV2]_vars

\* The request is one the spec rejects as a validation error: a malformed segment
\* string, a format that is none of the four, or an oversize duration
InvalidRequest == ~validate_args_v2(http).ok \/ http.format \notin Formats

\* C13: a request rejected as a validation error (malformed segment tuple, unknown
\* format, oversize duration) is answered with a 4xx structured error, and during its
\* handling there is no cache lookup, no cache write and no upstream call.
C13_RejectedUntouched ==
    http.pc = "responded" /\ InvalidRequest =>
        /\ http.status \in 400..499
        /\ http.error_code # "None"
        /\ \A c \in CallIds :
                /\ calls[c].t_lookup = 0
                /\ calls[c].gets = 0
                /\ calls[c].result.source # "api"

\* C16: every segment accepted by validate_args_v2 has led_count >= 1 and
\* slot_minutes * led_count / 60 <= MAX_FORECAST_DURATION_HOURS, and a request with a
\* segment that violates either bound is rejected with a structured error before any
\* of its segments is processed.
C16_AcceptedBounds ==
    /\ \A i \in 1..Len(req.segs) :
            /\ req.segs[i].led_count >= 1
            /\ req.segs[i].slot_minutes * req.segs[i].led_count
                    <= MAX_FORECAST_DURATION_HOURS * MinutesPerHour
    /\ http.pc \notin {"none", "arrived"} =>
            \A i \in 1..Len(http.s) :
                LET raw == http.s[i]
                    out_of_bounds ==
                        /\ raw.led_count \in DOMAIN PyInt
                        /\ \/ PyInt[raw.led_count] < 1
                           \/ /\ raw.program \in DOMAIN ProgramMinutes
                              /\ ProgramMinutes[raw.program] * PyInt[raw.led_count]
                                    > MAX_FORECAST_DURATION_HOURS * MinutesPerHour
                IN  out_of_bounds =>
                        /\ req.pc = "none"
                        /\ http.status = HTTP_BAD_REQUEST
                        /\ http.error_code # "None"

\* ------------------------------------------------------------------------
\* Claims about the cache directory under concurrent get_yrdata calls
\* ------------------------------------------------------------------------

\* Call c is inside _write_cache_file with a validated body for key k
Refreshing(c, k) ==
    /\ KeyOf(calls[c]) = k
    /\ calls[c].pc \in {"write_open", "write_close"}
    /\ calls[c].text \in ValidTexts(calls[c].cast_type)

\* C14: in every step of every interleaving of get_yrdata calls, a cache entry that
\* exists still exists afterwards, and a step that changes it is the step of a call
\* that fetched a valid body from the upstream and leaves the entry holding that body
\* in full, stamped with the time of the step: lookups, upstream failures and stale
\* fallbacks leave the entry as it is.
C14_OnlyFullReplace ==
    [][\A k \in CacheKeys :
            cache[k].exists =>
                /\ cache'[k].exists
                /\ cache'[k] # cache[k] =>
                        \E c \in CallIds :
                            /\ Refreshing(c, k)
                            /\ calls'[c].pc # calls[c].pc
                            /\ cache'[k] = File(calls[c].text, clock)]_vars

\* The v2 handler with the event loop resuming _process_segments once its gather
\* holds an exception
SpecV2Fair == SpecV2 /\ WF_vars(Raise)

\* C15: once the task of a weather segment has raised, _process_segments never
\* returns segment output, whatever the other segments of the request have produced;
\* it raises to its caller, and the handler answers the request with the 500 of the
\* exception handler.
C15_RaiseAborts ==
    /\ []((\E k \in 1..Len(tasks) : tasks[k].pc = "raised") =>
            /\ req.pc \in {"gather", "raised"}
            /\ http.pc = "responded" => http.status = HTTP_INTERNAL_SERVER_ERROR)
    /\ (\E k \in 1..Len(tasks) : tasks[k].pc = "raised") ~> (req.pc = "raised")

\* _process_segments has raised although a dark segment of the request had its slots
\* and the weather task of another segment had completed
C15_Witness ==
    /\ req.pc = "raised"
    /\ http.status = HTTP_INTERNAL_SERVER_ERROR
    /\ \E i \in 1..Len(output) : Len(output[i]) > 0 \/ \E k \in DoneTasks : tasks[k].idx = i

\* ------------------------------------------------------------------------
\* _process_segments with the cm_preview flag: two segments of one program, one of
\* them reversed, of any led_count that validate_args_v2 passes on (it has no lower
\* bound, so a negative one is among them), under a loaded and an unknown colormap.
\* ------------------------------------------------------------------------
MaxPreviewLeds == 9

PreviewColormaps == {"plain", "night", "nope"}

InitPreview ==
    /\ env \in ColormapEnvs
    /\ clock = SetMin(StartClocks)
    /\ cache = [j \in CacheKeys |-> NoFile]
    /\ calls = [c \in CallIds |-> IdleCall]
    /\ \E p \in {"dark", "r15min"}, cm \in PreviewColormaps,
          n \in (0 - 1)..MaxPreviewLeds, m \in (0 - 1)..MaxPreviewLeds :
            req = [segs |-> <<Segment(p, n, FALSE, Helsinki), Segment(p, m, TRUE, Helsinki)>>,
                   colormap |-> cm, cm_preview |-> TRUE, pc |-> "received"]
    /\ tasks = <<>>
    /\ doneOrder = <<>>
    /\ output = <<>>
    /\ statuses = <<>>
    /\ grid = NoGrid
    /\ ticks = 0
    /\ http = NoHttp

NextPreview == ProcessSegments

SpecPreview == InitPreview /\ [][NextPreview]_vars

\* The position in the bucket order of the bucket a preview slot names
PreviewPosition(slot) ==
    CHOOSE q \in 1..Len(BucketOrder) : slot.wl_symbol = "colormap_preview_" \o BucketOrder[q]

\* Segment i shows, before reversal, bucket min(floor(j * N / led_count), N - 1) at
\* slot j (counted from 0), positions never decrease, and a segment of N slots shows
\* the bucket order itself
PreviewShape(i) ==
    LET led_count == req.segs[i].led_count
        N == Len(BucketOrder)
    IN  /\ \A j \in 1..Len(output[i]) :
                LET at == ((j - 1) * N) \div led_count
                    position == IF at < N - 1 THEN at ELSE N - 1
                IN  PreReversal(i, j).wl_symbol = "colormap_preview_" \o BucketOrder[position + 1]
        /\ \A j \in 1..(Len(output[i]) - 1) :
                PreviewPosition(PreReversal(i, j)) <= PreviewPosition(PreReversal(i, j + 1))
        /\ led_count = N =>
                \A q \in 1..N : PreReversal(i, q).wl_symbol = "colormap_preview_" \o BucketOrder[q]

\* C17: with the cm_preview flag every segment of a returned request has exactly
\* led_count slots, and before reversal slot i names the bucket at position
\* min(floor(i * N / led_count), N - 1) of the bucket order, so positions never
\* decrease and a segment of N slots shows each bucket once, in order.
C17_ColormapPreview ==
    (req.pc = "returned" /\ req.cm_preview) =>
        \A i \in 1..Len(req.segs) :
            /\ Len(output[i]) = req.segs[i].led_count
            /\ PreviewShape(i)

\* ------------------------------------------------------------------------
\* Claims about what still runs when _process_segments is over (Spec)
\* ------------------------------------------------------------------------

\* The fetches of get_yrdata that have started and not yet returned or raised
RunningCalls == {c \in CallIds : calls[c].pc \notin {"idle", "done", "raised"}}

\* C18: when _process_segments has returned or raised, no segment task of the request
\* and no nowcast or forecast fetch started for it is still running.
C18_AllJoined ==
    req.pc \in {"returned", "raised"} =>
        /\ \A k \in 1..Len(tasks) : tasks[k].pc \in {"done", "raised"}
        /\ RunningCalls = {}

\* ------------------------------------------------------------------------
\* Claims about the stale fallback and the cache writes of get_yrdata (SpecFetch)
\* ------------------------------------------------------------------------

\* C19: under every interleaving of get_yrdata calls on one key no call raises in the
\* stale fallback, and every result of source cache_stale carries the age, not null,
\* that the call observed at its cache lookup.
C19_StaleNeverRaises ==
    \A c \in CallIds :
        /\ calls[c].pc # "raised"
        /\ (calls[c].pc = "done" /\ calls[c].result.source = "cache_stale") =>
                /\ calls[c].result.cache_age_seconds # NaN
                /\ calls[c].result.cache_age_seconds = calls[c].age

\* The upstream answered r with 200 or 203 and a body that parses and has a non-empty
\* timeseries list
SuccessPath(r, cast_type) ==
    /\ ~r.err
    /\ r.status \in {200, 203}
    /\ r.text \in ValidTexts(cast_type)

\* C20: get_yrdata goes on to write the cache exactly when the upstream answers 200 or
\* 203 with a body that parses and has a non-empty timeseries list; a cache entry
\* changes only in a write step of such a call, takes the time of that step, and is
\* then a validated response; a call on a failure path (network error, any other
\* status, unparsable or misshapen body) changes no entry in any of its steps.
C20_WriteOnlyOnSuccess ==
    /\ [](\A c \in CallIds :
            /\ calls[c].pc \in {"write_open", "write_close"} =>
                    calls[c].text \in ValidTexts(calls[c].cast_type)
            /\ calls[c].pc = "http" =>
                    \A r \in Responses(calls[c].cast_type) :
                        /\ SuccessPath(r, calls[c].cast_type) =>
                                /\ AfterHttp(calls[c], r).pc = "write_open"
                                /\ AfterHttp(calls[c], r).text = r.text
                        /\ ~SuccessPath(r, calls[c].cast_type) =>
                                AfterHttp(calls[c], r).pc = "fallback")
    /\ [][/\ \A k \in CacheKeys :
                cache'[k] # cache[k] =>
                    \E c \in CallIds :
                        /\ Refreshing(c, k)
                        /\ calls'[c].pc # calls[c].pc
                        /\ cache'[k].mtime = clock
                        /\ cache'[k].text \in ValidTexts(k[1])
          /\ \A c \in CallIds :
                (calls[c].pc \in {"http", "fallback"} /\ calls'[c] # calls[c]) =>
                    cache' = cache]_vars

\* ------------------------------------------------------------------------
\* Claims about concurrent refreshes of one key (SpecFetch)
\* ------------------------------------------------------------------------

\* Calls c and d are two refreshes of one key that both looked the cache up, found
\* nothing fresh, and got an accepted body from the upstream
BothRefreshed(c, d) ==
    /\ c # d
    /\ KeyOf(calls[c]) = KeyOf(calls[d])
    /\ calls[c].pc = "done" /\ calls[d].pc = "done"
    /\ calls[c].result.source = "api" /\ calls[d].result.source = "api"

\* C21: two refreshes of one key that both saw a missing or stale entry each make
\* their own upstream call and each write; both return source api with age 0, and
\* the entry holds the bytes of the writer that finished last.
C21_LastWriterWins ==
    /\ [](\A c \in CallIds, d \in CallIds :
            BothRefreshed(c, d) =>
                /\ calls[c].gets = 1 /\ calls[d].gets = 1
                /\ calls[c].result.cache_age_seconds = 0
                /\ calls[d].result.cache_age_seconds = 0)
    /\ [][\A c \in CallIds :
            (calls[c].pc = "write_close" /\ calls'[c].pc = "done") =>
                cache'[KeyOf(calls[c])].text = calls[c].text]_vars

\* ------------------------------------------------------------------------
\* SpecClassify: add_symbol_and_color(df, colormap) applied to a frame of two rows
\* and a colormap dict.  The rows carry the index create_combined_forecast gives a
\* frame, the starts of consecutive slots.  The first row is drawn over the nowcast
\* rates around the thresholds (tenths of mm/h), every symbol code of the model or
\* none, and the probabilities around 50 or none; the second row is one of a few
\* fixed rows.  The colormap is one that load_colormaps builds (the eight buckets) or
\* a dict of another shape: without CLOUDY, with an UNKNOWN entry, without RAIN.
\* ------------------------------------------------------------------------
ClassifyRates == {NaN, 0, 1, 5, 6, 15, 16, 30, 31}

ClassifySymbols ==
    symbolmapKeys \cup UnknownSymbols \cup {None}
        \cup FamilySymbols("light") \cup FamilySymbols("heavy") \cup FamilySymbols("")

ClassifyProbs == {NaN, 40, 50, 51}

GridRow(time, prec_now, symbol, prob_of_prec) ==
    [time |-> time, prec_now |-> prec_now, prec_fore |-> NaN, prob_of_prec |-> prob_of_prec,
     symbol |-> symbol]

\* The index label of row k of a frame of program r15min: pd.date_range at the slot
\* frequency
SlotStart(k) == (k - 1) * ProgramMinutes["r15min"] * SecondsPerMinute

SecondRows ==
    {GridRow(SlotStart(2), NaN, "lightrain", 40), GridRow(SlotStart(2), 0, None, NaN),
     GridRow(SlotStart(2), 16, "clearsky", NaN)}

\* The dict d without key k
Without(d, k) == [b \in DOMAIN d \ {k} |-> d[b]]

UnknownColor == <<9, 9, 9>>

ClassifyColormaps ==
    {PlainColormap, NightColormap, Without(NightColormap, "CLOUDY"), Without(NightColormap, "RAIN"),
     [b \in Buckets \cup {"UNKNOWN"} |-> IF b = "UNKNOWN" THEN UnknownColor ELSE NightColormap[b]]}

InitClassify ==
    /\ env = DefaultEnv
    /\ clock = 0
    /\ cache = [j \in CacheKeys |-> NoFile]
    /\ calls = [c \in CallIds |-> IdleCall]
    /\ req = NoRequest
    /\ tasks = <<>>
    /\ doneOrder = <<>>
    /\ output = <<>>
    /\ statuses = <<>>
    /\ ticks = 0
    /\ http = NoHttp
    /\ \E prec_now \in ClassifyRates, symbol \in ClassifySymbols, prob \in ClassifyProbs,
          second \in SecondRows, colormap \in ClassifyColormaps :
            grid = [NoGrid EXCEPT !.pc = "rows",
                                  !.slot_minutes = ProgramMinutes["r15min"],
                                  !.slot_count = 2,
                                  !.df = <<GridRow(SlotStart(1), prec_now, symbol, prob), second>>,
                                  !.colormap = colormap]

AddSymbolAndColor ==
    /\ grid.pc = "rows"
    /\ grid' = [grid EXCEPT !.pc = "classified",
                            !.df = add_symbol_and_color(grid.df, grid.colormap)]
    /\ UNCHANGED <<env, clock, cache, calls, req, tasks, doneOrder, output, statuses, ticks, http>>

NextClassify == AddSymbolAndColor

SpecClassify == InitClassify /\ [][NextClassify]_vars

\* What the symbol map gives for a symbol: its bucket, or the marker of a row without
\* a bucket when the symbol is missing or no key of the map
MapBucket(symbol) ==
    IF symbol \in symbolmapKeys THEN symbolmap(symbol) ELSE "UNKNOWN"

\* The colormap of the frame has an entry for each of the eight buckets
FullColormap == Buckets \subseteq DOMAIN grid.colormap

\* C22: a row with a nowcast rate is classified by the rate alone when the rate is
\* positive: VERYHEAVYRAIN above 3.0, HEAVYRAIN above 1.5, RAIN above 0.5, LIGHTRAIN
\* above 0; at rate 0 it is CLOUDY when the symbol holds rain, sleet or snow, and the
\* symbol map's bucket of the symbol otherwise (under a colormap that holds the eight
\* buckets, the bucket is the wl_symbol of the row).
C22_NowcastLadder ==
    (grid.pc = "classified" /\ FullColormap) =>
        \A i \in 1..Len(grid.df) :
            LET row == grid.df[i]
            IN  row.prec_now # NaN =>
                    row.wl_symbol =
                        IF row.prec_now > 30 THEN "VERYHEAVYRAIN"
                        ELSE IF row.prec_now > 15 THEN "HEAVYRAIN"
                        ELSE IF row.prec_now > 5 THEN "RAIN"
                        ELSE IF row.prec_now > 0 THEN "LIGHTRAIN"
                        ELSE IF row.symbol # None /\ IsRainWord(row.symbol) THEN "CLOUDY"
                        ELSE MapBucket(row.symbol)

\* Rows at rate 0 with a rain symbol classified CLOUDY next to a row above a threshold
C22_Witness ==
    /\ grid.pc = "classified"
    /\ FullColormap
    /\ grid.df[1].time # grid.df[2].time
    /\ grid.df[1].prec_now = 0 /\ grid.df[1].symbol = "heavyrain" /\ grid.df[1].wl_symbol = "CLOUDY"
    /\ grid.df[2].prec_now = 16 /\ grid.df[2].wl_symbol = "HEAVYRAIN"

\* C23: a row without a nowcast rate takes the symbol map's bucket of its forecast
\* symbol; only LIGHTRAIN depends on prob_of_prec, becoming LIGHTRAIN_LT50 when the
\* probability is at most 50 and staying LIGHTRAIN when it is above 50 or missing
\* (under a colormap that holds the eight buckets).
C23_ForecastBucket ==
    (grid.pc = "classified" /\ FullColormap) =>
        \A i \in 1..Len(grid.df) :
            LET row == grid.df[i]
            IN  row.prec_now = NaN =>
                    row.wl_symbol =
                        IF /\ MapBucket(row.symbol) = "LIGHTRAIN"
                           /\ row.prob_of_prec # NaN
                           /\ row.prob_of_prec <= 50
                        THEN "LIGHTRAIN_LT50"
                        ELSE MapBucket(row.symbol)

\* A lightrain row at probability exactly 50 next to the lightrain row at 40, both
\* LIGHTRAIN_LT50
C23_Witness ==
    /\ grid.pc = "classified"
    /\ FullColormap
    /\ grid.df[1].time # grid.df[2].time
    /\ grid.df[1].prec_now = NaN /\ grid.df[1].symbol = "lightrain"
    /\ grid.df[1].prob_of_prec = 50 /\ grid.df[1].wl_symbol = "LIGHTRAIN_LT50"
    /\ grid.df[2].prec_now = NaN /\ grid.df[2].prob_of_prec = 40
    /\ grid.df[2].wl_symbol = "LIGHTRAIN_LT50"

\* C24: the symbol map sends every symbol of the light family (lightrain, lightsleet,
\* lightsnow in each variant) to LIGHTRAIN, of the heavy family to HEAVYRAIN and of
\* the plain family to RAIN, so a forecast row with such a symbol is never UNKNOWN
\* under a colormap that holds the eight buckets.
C24_FamiliesMapped ==
    (grid.pc = "classified" /\ FullColormap) =>
        \A i \in 1..Len(grid.df) :
            LET row == grid.df[i]
            IN  /\ row.symbol \in FamilySymbols("light") => symbolmapGet(row.symbol) = "LIGHTRAIN"
                /\ row.symbol \in FamilySymbols("heavy") => symbolmapGet(row.symbol) = "HEAVYRAIN"
                /\ row.symbol \in FamilySymbols("") => symbolmapGet(row.symbol) = "RAIN"
                /\ (/\ row.prec_now = NaN
                    /\ row.symbol \in FamilySymbols("light") \cup FamilySymbols("heavy")
                                        \cup FamilySymbols("")) =>
                        row.wl_symbol # "UNKNOWN"

NowSamples == yr_precipitation_to_df(grid.nowcast, "now")
ForeSamples == yr_precipitation_to_df(grid.forecast, "fore")

GridWidth == grid.slot_minutes * SecondsPerMinute

\* The samples of a frame inside the slot that starts at t, and those with a value
\* in column f at or before that slot
InSlot(samples, t) == {i \in 1..Len(samples) : t <= samples[i].time /\ samples[i].time < t + GridWidth}
UpToSlot(samples, t, f, null) ==
    {i \in 1..Len(samples) : samples[i].time < t + GridWidth /\ samples[i][f] # null}

\* The value of column f over the samples I: the first symbol, the largest number
ValueOver(samples, I, f) ==
    IF f = "symbol"
    THEN samples[CHOOSE i \in I : \A j \in I : samples[i].time <= samples[j].time].symbol
    ELSE SetMax({samples[i][f] : i \in I})

\* The value of forecast column f in the latest bucket, at slot t or earlier, that
\* holds a value; null when there is none
LatestValue(t, f, null) ==
    LET have == UpToSlot(ForeSamples, t, f, null)
    IN  IF have = {} THEN null
        ELSE LET last == SetMax({ForeSamples[i].time : i \in have})
                 T0 == grid.df[1].time
                 b == T0 + ((last - T0) \div GridWidth) * GridWidth
             IN  ValueOver(ForeSamples, {i \in have : b <= ForeSamples[i].time}, f)

\* The slot of the grid's last forecast sample
LastForeSlot ==
    LET T0 == grid.df[1].time
        last == SetMax({ForeSamples[i].time : i \in 1..Len(ForeSamples)})
    IN  T0 + ((last - T0) \div GridWidth) * GridWidth

\* prec_now of every slot is the largest rate among the samples inside the slot, and
\* null when the slot holds no sample with a rate, whatever earlier slots hold; a row
\* without prec_now is classified by the forecast symbol
NowcastNotFilled ==
    \A k \in 1..Len(grid.df) :
        LET row == grid.df[k]
            inside == {i \in InSlot(NowSamples, row.time) : NowSamples[i].prec_now # NaN}
        IN  /\ row.prec_now = IF inside = {} THEN NaN
                              ELSE SetMax({NowSamples[i].prec_now : i \in inside})
            /\ row.prec_now = NaN =>
                    ColorKey(row) = _determine_forecast_color_key(row.symbol, row.prob_of_prec)

ForecastFilledAt(k) ==
    LET row == grid.df[k]
    IN  /\ row.prec_fore = LatestValue(row.time, "prec_fore", NaN)
        /\ row.prob_of_prec = LatestValue(row.time, "prob_of_prec", NaN)
        /\ row.symbol = LatestValue(row.time, "symbol", None)

\* C26 as stated: no slot's prec_now is forward-filled, and every slot without a
\* forecast sample carries the forecast values of the latest earlier bucket.
C26_FillAsymmetry ==
    grid.pc = "combined" =>
        /\ NowcastNotFilled
        /\ \A k \in 1..Len(grid.df) :
                InSlot(ForeSamples, grid.df[k].time) = {} => ForecastFilledAt(k)

\* C26, amended: no slot's prec_now is forward-filled; a slot without a forecast
\* sample carries the forecast values of the latest earlier bucket when it lies
\* before the slot of the last forecast sample, and null forecast columns when it
\* lies after it.
C26_FillUpToLastSample ==
    grid.pc = "combined" =>
        /\ NowcastNotFilled
        /\ \A k \in 1..Len(grid.df) :
                LET row == grid.df[k]
                IN  InSlot(ForeSamples, row.time) = {} =>
                        IF ForeSamples # <<>> /\ row.time <= LastForeSlot
                        THEN ForecastFilledAt(k)
                        ELSE /\ row.prec_fore = NaN
                             /\ row.prob_of_prec = NaN
                             /\ row.symbol = None

\* A grid with a slot that has no prec_now although the nowcast has an earlier sample
\* with a rate, a slot that took its symbol from an earlier bucket, and a slot after
\* the last forecast sample
C26_Witness ==
    /\ grid.pc = "combined"
    /\ ForeSamples # <<>>
    /\ \E k \in 1..Len(grid.df), i \in 1..Len(NowSamples) :
            /\ NowSamples[i].time < grid.df[k].time /\ NowSamples[i].prec_now # NaN
            /\ grid.df[k].prec_now = NaN
    /\ \E k \in 1..Len(grid.df) :
            /\ InSlot(ForeSamples, grid.df[k].time) = {}
            /\ grid.df[k].time <= LastForeSlot
            /\ grid.df[k].symbol # None
    /\ \E k \in 1..Len(grid.df) :
            grid.df[k].time > LastForeSlot /\ grid.df[k].symbol = None

\* ------------------------------------------------------------------------
\* Claims about requests that need no weather data (SpecV2)
\* ------------------------------------------------------------------------

\* The request passed validation and has the cm_preview flag or dark segments only
SyncRequest ==
    /\ req.pc # "none"
    /\ req.cm_preview \/ \A i \in 1..Len(req.segs) : req.segs[i].program = "dark"

\* C27: a request with the cm_preview flag, or with dark segments only, starts no
\* task and no fetch: no call ever leaves its initial state, no step changes the
\* cache, the request returns (it never waits and never raises) with one output per
\* segment and every data_status fresh; in a mixed request the dark segments have
\* their slots when the weather tasks are awaited.
C27_SyncNeverFetches ==
    /\ [](/\ SyncRequest =>
                /\ tasks = <<>>
                /\ \A c \in CallIds : calls[c] = IdleCall
                /\ req.pc \in {"received", "returned"}
                /\ req.pc = "returned" =>
                        /\ Len(output) = Len(req.segs)
                        /\ \A i \in 1..Len(req.segs) :
                                /\ statuses[i] = "fresh"
                                /\ Len(output[i]) = req.segs[i].led_count
                                /\ \A j \in 1..Len(output[i]) : output[i][j].time = NaN
          /\ req.pc = "gather" =>
                \A i \in 1..Len(req.segs) :
                    req.segs[i].program = "dark" =>
                        /\ Len(output[i]) = req.segs[i].led_count
                        /\ \A j \in 1..Len(output[i]) : output[i][j].wl_symbol = "dark")
    /\ [][SyncRequest => cache' = cache /\ calls' = calls]_vars

\* A preview request for a weather segment inside the nowcast coverage has been
\* answered with its slots and no call has moved
C27_Witness ==
    /\ http.pc = "responded" /\ http.status = HTTP_OK
    /\ req.cm_preview
    /\ \E i \in 1..Len(req.segs) :
            /\ req.segs[i].program = "r15min" /\ req.segs[i].loc = Helsinki
            /\ Len(output[i]) = 2
    /\ \A c \in CallIds : calls[c] = IdleCall

\* ------------------------------------------------------------------------
\* SpecDev: callers of get_yrdata on one key, with and without the dev flag, on a
\* cache directory that holds what earlier calls left for the key.
\* ------------------------------------------------------------------------

\* The clock at start: off the boundaries, on a 5-minute boundary, in a later hour
DevClocks == StartClocks \cup {3725}

InitDev ==
    /\ env \in DstEnvs(DstAtStart)
    /\ clock \in DevClocks
    /\ \E k \in CacheKeys : \E file \in StartFiles(k[1], clock) :
            /\ k[2] = FetchLocation
            /\ cache = [j \in CacheKeys |-> IF j = k THEN file ELSE NoFile]
    /\ calls = [c \in CallIds |-> IdleCall]
    /\ req = NoRequest
    /\ tasks = <<>>
    /\ doneOrder = <<>>
    /\ output = <<>>
    /\ statuses = <<>>
    /\ grid = NoGrid
    /\ ticks = 0
    /\ http = NoHttp

\* A caller calls get_yrdata(lat, lon, cast_type, dev)
StartCallDev(c) ==
    /\ c \in 1..MaxCallers
    /\ calls[c].pc = "idle"
    /\ \E ct \in CastTypes, dev \in BOOLEAN :
            /\ \A k \in CacheKeys : k # _get_cache_path(FetchLocation, ct) => cache[k] = NoFile
            /\ calls' = [calls EXCEPT ![c] = [NewCall(ct, FetchLocation) EXCEPT !.dev = dev]]
    /\ UNCHANGED <<env, clock, cache, req, tasks, doneOrder, output, statuses, grid, ticks, http>>

NextDev ==
    \/ \E c \in CallIds : StartCallDev(c)
    \/ \E c \in CallIds : CheckCacheDev(c)
    \/ \E c \in CallIds : CallStep(c)

SpecDev == InitDev /\ [][NextDev]_vars

\* The length of the step of the rewritten timestamps, in seconds
DevStep(cast_type) == IF cast_type = "nowcast" THEN 300 ELSE 3600

\* data is the sample of the cast type with its times on the steps from the one that
\* holds the clock
IsRewrittenSample(data, cast_type, now) ==
    LET sample == DevSample(cast_type)
        step == DevStep(cast_type)
    IN  /\ data.kind = "obj" /\ data.hasTs
        /\ Len(data.ts) = Len(sample.ts)
        /\ data.ts[1].time % step = 0
        /\ data.ts[1].time <= now /\ now < data.ts[1].time + step
        /\ \A i \in 1..Len(data.ts) :
                /\ data.ts[i].time = data.ts[1].time + (i - 1) * step
                /\ [data.ts[i] EXCEPT !.time = 0] = [sample.ts[i] EXCEPT !.time = 0]

\* C28: a get_yrdata call with the dev flag returns the sample of its cast type with
\* rewritten timestamps as a fresh result of age 0 whatever the cache holds, without
\* a cache lookup, a fallback read or an upstream request, and none of its steps
\* changes a cache entry; a call without the flag never returns the sample.
C28_DevMode ==
    /\ [](\A c \in CallIds :
            /\ calls[c].dev =>
                /\ calls[c].pc \in {"check_age", "done"}
                /\ calls[c].gets = 0
                /\ calls[c].t_lookup = 0 /\ calls[c].found = None /\ calls[c].fallback = None
                /\ calls[c].pc = "done" =>
                        /\ calls[c].result.source = "cache_fresh"
                        /\ calls[c].result.cache_age_seconds = 0
                        /\ IsRewrittenSample(calls[c].result.data, calls[c].cast_type, clock)
            /\ ~calls[c].dev /\ calls[c].pc = "done" =>
                \A ct \in CastTypes :
                    ~IsRewrittenSample(calls[c].result.data, ct, clock))
    /\ [][\A c \in CallIds : calls'[c].dev /\ calls'[c] # calls[c] => cache' = cache]_vars

\* A dev call has returned while its key has a cache file, and a call without the
\* flag has refreshed that file from the upstream
C28_Witness ==
    \E c, d \in CallIds :
        /\ calls[c].dev /\ calls[c].pc = "done"
        /\ cache[KeyOf(calls[c])].exists
        /\ ~calls[d].dev /\ calls[d].pc = "done" /\ calls[d].result.source = "api"

\* ------------------------------------------------------------------------
\* SpecOutage: one weather segment evaluated again and again (create_forecast's two
\* fetches, then _get_segment_data) while minutes and hours pass between the
\* evaluations.  statuses holds the data_status of the evaluations so far and output
\* what their two fetches returned: source, age and the clock at the cache lookup.
\* ------------------------------------------------------------------------
MaxRounds == 3      \* evaluations of the segment
MaxWaits == 2       \* steps of the clock
OutageLeds == 2     \* led_count of the segment

\* The clock steps: within the TTL, past the stale threshold, past the error threshold
OutageSteps == {100, 2000, 9000}

\* Ages of the cache files found at start
OutageAges == {90, 1000}

OutageText(cast_type) == IF cast_type = "nowcast" THEN "now_a" ELSE "fore_a"

OutageFiles(cast_type) ==
    {NoFile, File("garbage", SetMin(StartClocks) - SetMin(OutageAges))}
        \cup {File(OutageText(cast_type), SetMin(StartClocks) - a) : a \in OutageAges}

InitOutage ==
    /\ env \in DstEnvs(DstAtOutage)
    /\ clock = SetMin(StartClocks)
    /\ \E nf \in OutageFiles("nowcast"), ff \in OutageFiles("locationforecast") :
            cache = [j \in CacheKeys |->
                        IF j = _get_cache_path(Helsinki, "nowcast") THEN nf
                        ELSE IF j = _get_cache_path(Helsinki, "locationforecast") THEN ff
                        ELSE NoFile]
    /\ calls = [c \in CallIds |-> IdleCall]
    /\ req = NoRequest
    /\ tasks = <<>>
    /\ doneOrder = <<>>
    /\ output = <<>>
    /\ statuses = <<>>
    /\ grid = NoGrid
    /\ ticks = 0
    /\ http = NoHttp

\* create_forecast starts its two fetches, some time after the evaluation before
StartRound ==
    /\ Len(statuses) < MaxRounds
    /\ ticks = Len(statuses)
    /\ calls[NowcastCall(1)].pc = "idle" /\ calls[ForecastCall(1)].pc = "idle"
    /\ calls' = [calls EXCEPT ![NowcastCall(1)] = get_nowcast(Helsinki),
                              ![ForecastCall(1)] = get_locationforecast(Helsinki)]
    /\ UNCHANGED <<env, clock, cache, req, tasks, doneOrder, output, statuses, grid, ticks, http>>

FetchSummary(call) ==
    [source |-> call.result.source, age |-> call.result.cache_age_seconds,
     t_lookup |-> call.t_lookup]

\* the gather of create_forecast returns and _get_segment_data runs to its end
FinishRound ==
    /\ calls[NowcastCall(1)].pc = "done" /\ calls[ForecastCall(1)].pc = "done"
    /\ LET r == _get_segment_data(calls[NowcastCall(1)].result, calls[ForecastCall(1)].result,
                                  ProgramMinutes["r15min"], OutageLeds, "plain", clock)
       IN  statuses' = Append(statuses, r.data_status)
    /\ output' = Append(output, [nowcast |-> FetchSummary(calls[NowcastCall(1)]),
                                 forecast |-> FetchSummary(calls[ForecastCall(1)])])
    /\ calls' = [calls EXCEPT ![NowcastCall(1)] = IdleCall, ![ForecastCall(1)] = IdleCall]
    /\ UNCHANGED <<env, clock, cache, req, tasks, doneOrder, grid, ticks, http>>

\* Time passes between two evaluations
Wait ==
    /\ ticks < MaxWaits
    /\ ticks < Len(statuses)
    /\ calls[NowcastCall(1)].pc = "idle" /\ calls[ForecastCall(1)].pc = "idle"
    /\ \E d \in OutageSteps : clock' = clock + d
    /\ ticks' = ticks + 1
    /\ UNCHANGED <<env, cache, calls, req, tasks, doneOrder, output, statuses, grid, http>>

NextOutage ==
    \/ StartRound
    \/ \E c \in CallIds : CallStep(c)
    \/ FinishRound
    \/ Wait

SpecOutage == InitOutage /\ [][NextOutage]_vars

StatusRank(status) == CASE status = "fresh" -> 0 [] status = "stale" -> 1 [] OTHER -> 2

FromCache(f) == f.source \in {"cache_fresh", "cache_stale"}

\* Neither fetch of evaluation r got an answer from the upstream that it cached
NoRefresh(r) == output[r].nowcast.source # "api" /\ output[r].forecast.source # "api"

\* The status the ages of evaluation r stand for
StatusOfAges(r) ==
    LET ages == {output[r].nowcast.age, output[r].forecast.age} \ {NaN}
    IN  IF output[r].forecast.source = "none" THEN "error"
        ELSE IF \E a \in ages : a > 3 * 3600 THEN "error"
        ELSE IF \E a \in ages : a > 30 * 60 THEN "stale"
        ELSE "fresh"

\* C29: a cache entry changes only under a call whose upstream response was
\* accepted; a key served from the cache in two successive evaluations has aged by
\* the time between the two lookups; every evaluation has the status of its ages
\* (fresh up to 30 minutes, stale up to 3 hours, error beyond or without forecast
\* data); and an evaluation in which no fetch was refreshed from the upstream never
\* has a better status than the evaluation before it.
C29_OutageMonotone ==
    /\ [](\A r \in 1..Len(statuses) :
            /\ statuses[r] = StatusOfAges(r)
            /\ r > 1 =>
                /\ \A key \in {"nowcast", "forecast"} :
                        FromCache(output[r][key]) /\ FromCache(output[r - 1][key]) =>
                            output[r][key].age - output[r - 1][key].age
                                = output[r][key].t_lookup - output[r - 1][key].t_lookup
                /\ NoRefresh(r) => StatusRank(statuses[r - 1]) <= StatusRank(statuses[r]))
    /\ [][\A k \in CacheKeys :
            cache'[k] # cache[k] =>
                \E c \in CallIds :
                    /\ KeyOf(calls[c]) = k
                    /\ calls[c].pc \in {"write_open", "write_close"}
                    /\ calls[c].text \in ValidTexts(calls[c].cast_type)]_vars

\* ------------------------------------------------------------------------
\* Claims about the fields of a fetch result (Spec)
\* ------------------------------------------------------------------------

\* C30: every result that get_yrdata or get_nowcast has returned names one of the
\* four sources; it has no data exactly when its source is none, and then no age; a
\* result from the upstream has age 0 and a fresh cache hit an age of at most
\* CACHE_TTL_SECONDS; so a finished segment that has forecast data and is reported
\* stale or error has a fetch that was served from a stale entry.
C30_ResultShape ==
    /\ \A c \in CallIds :
            calls[c].pc = "done" =>
                LET r == calls[c].result
                IN  /\ r.source \in {"api", "cache_fresh", "cache_stale", "none"}
                    /\ (r.data = PyNone) <=> (r.source = "none")
                    /\ r.source = "none" => r.cache_age_seconds = NaN
                    /\ r.source = "api" => r.cache_age_seconds = 0
                    /\ r.source = "cache_fresh" =>
                            /\ r.cache_age_seconds # NaN
                            /\ r.cache_age_seconds <= CACHE_TTL_SECONDS
    /\ \A k \in 1..Len(tasks) :
            /\ tasks[k].pc = "done"
            /\ tasks[k].data_status \in {"stale", "error"}
            /\ calls[ForecastCall(k)].result.source # "none"
            => \E c \in {NowcastCall(k), ForecastCall(k)} :
                    calls[c].result.source = "cache_stale"

\* Two finished segments: one outside the nowcast coverage, without nowcast data and
\* with a forecast from the upstream, and one reported stale with forecast data
C30_Witness ==
    \E k, j \in 1..Len(tasks) :
        /\ tasks[k].pc = "done" /\ tasks[j].pc = "done"
        /\ calls[NowcastCall(k)].result.source = "none"
        /\ calls[NowcastCall(k)].gets = 0
        /\ calls[ForecastCall(k)].result.source = "api"
        /\ tasks[j].data_status = "stale"
        /\ calls[ForecastCall(j)].result.source # "none"
====
